---- MODULE Spec2Model ----
(***************************************************************************)
(* Gmail -> Outlook migration orchestrator                                 *)
(* (app/services/migration/gmail_to_outlook.py) together with the parts of *)
(* GmailClient, GmailLabelsService and OutlookClient it drives.            *)
(*                                                                         *)
(* The orchestrator is sequential.  Its control position is pc; the        *)
(* activation records of the running methods are op (the method the caller *)
(* invoked), ma (migrate_all_emails), ia (import_all_emails) and bl        *)
(* (migrate_emails_by_label).  Every provider call and every status        *)
(* callback has its outcome chosen by the environment.                     *)
(***************************************************************************)
EXTENDS Integers, Sequences, FiniteSets, TLC

\* ------------------------------------------------------------------------
\* Bounds of the explored environment
\* ------------------------------------------------------------------------
\* messages carried by each label of the source mailbox
MaxMsgs == 2
\* migrate_labels_to_folders calls a caller makes before it starts a run
MaxReconciles == 2
\* listing requests one get_email_batches cursor is followed through, less one
MaxPages == 3
\* largest max_calls a RateLimiter is constructed with
MaxCalls == 2
\* wait() calls started on one RateLimiter
MaxWaits == 3
\* times the clock moves between two steps of the callers
MaxJumps == 2
\* update_migration_state calls with a log line, made one after the other
MaxLogged == 150
\* the first of them, whose line may bring its own "[" prefix
MaxBracketed == 2
\* of the calls made one after the other, those without a log line
MaxPlain == 2
\* requests that start a run
MaxRuns == 2
\* status updates the service sends during one run
MaxServiceUpdates == 1
\* get_all_labels calls a caller makes on one labels service
MaxListings == 3

\* connections to the status stream
MaxSubscribers == 2

\* ------------------------------------------------------------------------
\* Values
\* ------------------------------------------------------------------------
\* Python's None, as returned by dict.get for a missing key
None == "None"
\* the falsy folder id: no folder
NoFolder == "None"

Min(S) == CHOOSE x \in S : \A y \in S : x <= y

\* dict.get(key, default)
Get(d, key, default) == IF key \in DOMAIN d THEN d[key] ELSE default

\* d[key] = value
Put(d, key, value) ==
    [x \in DOMAIN d \cup {key} |-> IF x = key THEN value ELSE d[x]]

\* the empty dict {}
EmptyDict == [x \in {} |-> None]

Lbl(i, n, t) == [id |-> i, name |-> n, type |-> t]
Fld(i, n) == [id |-> i, displayName |-> n]

\* Source label catalogs explored (what users().labels().list returns,
\* transformed).  Label ids are unique within a catalog, names need not be.
NestedCatalogs ==
    { <<>>,
      <<Lbl("INBOX", "INBOX", "system"), Lbl("L1", "Work", "user")>>,
      <<Lbl("L1", "Work", "user"), Lbl("L2", "Work/Done", "user")>>,
      <<Lbl("L1", "A/B/C", "user"), Lbl("L2", "A/B", "user")>>,
      <<Lbl("L1", "A/B", "user"), Lbl("L2", "A/D", "user")>>,
      <<Lbl("CHAT", "A/B", "system"), Lbl("L1", "B", "user"),
        Lbl("L2", "B", "user")>> }

Catalogs ==
    { <<Lbl("INBOX", "INBOX", "system"), Lbl("L1", "Work", "user")>>,
      <<Lbl("STARRED", "STARRED", "system"), Lbl("L1", "Favorites", "user"),
        Lbl("CHAT", "CHAT", "system")>>,
      <<Lbl("L1", "A", "user"), Lbl("L2", "A", "user")>>,
      <<Lbl("", "Work", "user"), Lbl("L2", "B", "user")>> }

\* Destination folder listings the run can start from
InitialFolders ==
    { <<>>,
      <<Fld("f1", "Inbox")>>,
      <<Fld("f1", "Inbox"), Fld("f2", "Work"), Fld("f3", "Work")>> }

\* ids the destination hands out, in order of folder creation
FolderIds == <<"f1", "f2", "f3", "f4", "f5", "f6", "f7", "f8">>
NewFolderId(dest) == FolderIds[Len(dest) + 1]

\* outcomes of one OutlookClient._make_request (lines 74-254)
\*   ok: 2xx with a JSON body; auth: 401; error: any other failure
\*   (4xx/5xx status, timeout, connection error).  Every outcome but ok
\*   raises HTTPException.
AllRequestOutcomes == {"ok", "auth", "error"}

\* ------------------------------------------------------------------------
\* GmailLabelsService.get_all_labels
\* ------------------------------------------------------------------------
\* cache: _all_labels_cache (<<>> for None or []); fetched: what the listing
\* call yields when it is made (<<>> when it fails: the except returns [])
GetAllLabels(cache, fetched) ==
    IF cache # <<>>
    THEN [labels |-> cache, cache |-> cache, listed |-> FALSE]
    ELSE [labels |-> fetched, cache |-> fetched, listed |-> TRUE]

\* how the listing of one get_all_labels call can go: unavailable = the
\* client has no service object (lines 47-50); ok = the request answers;
\* auth = it raises on a 401; error = it raises on anything else
AllListingOutcomes == {"ok", "unavailable", "auth", "error"}

\* get_all_labels (lines 36-92) with the outcome spelt out.  labels: what
\* the source lists; raised: the error that leaves the method, none when it
\* returns
GetAllLabelsCall(cache, outcome, labels) ==
    IF cache # <<>>
    THEN [returned |-> cache, raised |-> "none", cache |-> cache,
          request |-> "cached"]
    ELSE IF outcome = "unavailable"
    THEN [returned |-> <<>>, raised |-> "none", cache |-> cache,
          request |-> outcome]
    ELSE IF outcome = "ok"
    THEN [returned |-> labels, raised |-> "none", cache |-> labels,
          request |-> outcome]
    ELSE [returned |-> <<>>, raised |-> "none", cache |-> cache,
          request |-> outcome]

\* ------------------------------------------------------------------------
\* GmailLabelsService.get_nested_labels
\* ------------------------------------------------------------------------
\* name.split("/") for the label names the catalogs use
Split(name) ==
    CASE name = "Work/Done" -> <<"Work", "Done">>
      [] name = "A/B" -> <<"A", "B">>
      [] name = "A/D" -> <<"A", "D">>
      [] name = "A/B/C" -> <<"A", "B", "C">>
      [] OTHER -> <<name>>

\* the dict nested is written as a function from the paths of its nodes to
\* [type, id]; the node nested[""] has the path <<>>.  A reference into it
\* (the local current) is Outer for the dict nested itself, which has the
\* one key "" and no key "children", or else the path of a node.
Outer == "nested"
RootOnly == (<<>> :> [type |-> "folder", id |-> ""])

IsPrefix(p, q) == Len(p) <= Len(q) /\ SubSeq(q, 1, Len(p)) = p

\* current["children"][pp] = {"id": id, "type": "label", "children": {}}:
\* the node at path is replaced, whatever was below it is gone
AssignLabel(tree, path, id) ==
    [q \in {r \in DOMAIN tree : ~IsPrefix(path, r)} \cup {path} |->
        IF q = path THEN [type |-> "label", id |-> id] ELSE tree[q]]

\* the walks of lines 160-174 (id = None: every part is a folder) and
\* 177-199 (the last part is the label id), from current along path_parts,
\* which parent_path.split("/") gives back as the parts joined into it
RECURSIVE Walk(_, _, _, _, _)
Walk(tree, current, path_parts, j, id) ==
    IF j > Len(path_parts) THEN [raised |-> FALSE, tree |-> tree]
    ELSE LET pp == path_parts[j]
         IN IF pp = "" THEN Walk(tree, current, path_parts, j + 1, id)
            ELSE IF current = Outer
            THEN [raised |-> TRUE, tree |-> tree]
            ELSE LET child == Append(current, pp)
                 IN IF id # None /\ j = Len(path_parts)
                    THEN Walk(AssignLabel(tree, child, id), current,
                              path_parts, j + 1, id)
                    ELSE Walk(IF child \in DOMAIN tree THEN tree
                              ELSE Put(tree, child,
                                       [type |-> "folder", id |-> ""]),
                              child, path_parts, j + 1, id)

\* lines 154-199: the loop over the parts of one nested name
RECURSIVE PartsLoop(_, _, _, _)
PartsLoop(tree, parts, i, id) ==
    IF i > Len(parts) THEN [raised |-> FALSE, tree |-> tree]
    ELSE LET w == Walk(tree, Outer, SubSeq(parts, 1, i), 1,
                       IF i < Len(parts) THEN None ELSE id)
         IN IF w.raised THEN w ELSE PartsLoop(w.tree, parts, i + 1, id)

\* get_nested_labels (lines 133-201) on the labels get_all_labels returned
RECURSIVE NestedLoop(_, _)
NestedLoop(tree, labels) ==
    IF labels = <<>> THEN [raised |-> FALSE, tree |-> tree]
    ELSE LET label == Head(labels)
             parts == Split(label.name)
         IN IF label.type = "system" THEN NestedLoop(tree, Tail(labels))
            ELSE IF Len(parts) = 1
            THEN NestedLoop(AssignLabel(tree, <<label.name>>, label.id),
                            Tail(labels))
            ELSE LET r == PartsLoop(tree, parts, 1, label.id)
                 IN IF r.raised THEN r ELSE NestedLoop(r.tree, Tail(labels))

GetNestedLabels(labels) == NestedLoop(RootOnly, labels)

\* ------------------------------------------------------------------------
\* GmailToOutlookMigrationService.migrate_labels_to_folders
\* ------------------------------------------------------------------------
SystemMapping ==
    [INBOX |-> "Inbox", SENT |-> "Sent Items", DRAFT |-> "Drafts",
     TRASH |-> "Deleted Items", SPAM |-> "Junk Email",
     IMPORTANT |-> "Important", STARRED |-> "Favorites"]

\* the search handing back the name it looked for
FirstFolderName(outlook_folders, name) ==
    IF \E i \in 1..Len(outlook_folders) :
          outlook_folders[i].displayName = name
    THEN name ELSE NoFolder

\* for folder in outlook_folders: if folder["displayName"] == name: return id
FirstFolderNamed(outlook_folders, name) ==
    LET hits == {i \in 1..Len(outlook_folders) :
                    outlook_folders[i].displayName = name}
    IN IF hits = {} THEN NoFolder ELSE outlook_folders[Min(hits)].id

\* line 163 looking the label's own name up among the folders
MapSystemLabelByOwnName(gmail_label, outlook_folders) ==
    FirstFolderNamed(outlook_folders, gmail_label)

\* lines 163-172
MapSystemLabelToFolder(gmail_label, outlook_folders) ==
    IF gmail_label \notin DOMAIN SystemMapping
    THEN NoFolder
    ELSE FirstFolderNamed(outlook_folders, SystemMapping[gmail_label])

IsSystem(label) == label.type = "system"
IsUser(label) == label.type = "user"

\* the loop over system_labels (lines 84-102); acc = [mapping, logged]
RECURSIVE SystemLoop(_, _, _)
SystemLoop(system_labels, outlook_folders, acc) ==
    IF system_labels = <<>> THEN acc
    ELSE LET label == Head(system_labels)
             fid == MapSystemLabelToFolder(label.name, outlook_folders)
             next == IF fid # NoFolder
                     THEN [acc EXCEPT !.mapping = Put(@, label.id, fid)]
                     ELSE [acc EXCEPT !.logged = @ \cup {label.id}]
         IN SystemLoop(Tail(system_labels), outlook_folders, next)

\* one iteration of the loop over user_labels (lines 105-133)
\* acc = [mapping, names, dest, created, logged, auth]
UserLabelStep(acc, label, outlook_folders, outcome) ==
    IF label.name \in acc.names
    THEN LET fid == FirstFolderNamed(outlook_folders, label.name)
         IN IF fid # NoFolder
            THEN [acc EXCEPT !.mapping = Put(@, label.id, fid)]
            ELSE acc
    ELSE IF outcome = "ok"
         THEN [acc EXCEPT
                 !.mapping = Put(@, label.id, NewFolderId(acc.dest)),
                 !.names = @ \cup {label.name},
                 !.dest = Append(@, Fld(NewFolderId(acc.dest), label.name)),
                 !.created = Append(@, label.name)]
         ELSE [acc EXCEPT !.logged = @ \cup {label.id},
                          !.failures = @ + 1,
                          !.auth = @ \/ outcome = "auth"]

RECURSIVE UserLoop(_, _, _, _, _)
UserLoop(user_labels, k, outlook_folders, outcomes, acc) ==
    IF k > Len(user_labels) THEN acc
    ELSE UserLoop(user_labels, k + 1, outlook_folders, outcomes,
                  UserLabelStep(acc, user_labels[k], outlook_folders,
                                outcomes[k]))

\* The whole method.  gmail_labels: what get_all_labels returned; dest: the
\* destination's folders; listing: outcome of get_folders; outcomes[k]: the
\* outcome of create_folder for the k-th user label, should it be called.
\* raised: get_folders raised, so the method raised and assigned nothing.
\* seen: the listing get_folders returned; created: the names passed to the
\* create_folder calls that succeeded; failures: the create_folder calls that
\* raised; logged: the ids of the labels whose skip was logged (lines 100, 133).
MigrateLabelsToFolders(gmail_labels, dest, listing, outcomes) ==
    IF listing # "ok"
    THEN [raised |-> TRUE, mapping |-> EmptyDict, dest |-> dest,
          seen |-> <<>>, created |-> <<>>, logged |-> {}, failures |-> 0,
          auth |-> listing = "auth", labels |-> gmail_labels]
    ELSE LET outlook_folders == dest
             sys == SystemLoop(SelectSeq(gmail_labels, IsSystem),
                               outlook_folders,
                               [mapping |-> EmptyDict, logged |-> {}])
             usr == UserLoop(SelectSeq(gmail_labels, IsUser), 1,
                             outlook_folders, outcomes,
                             [mapping |-> sys.mapping,
                              names |-> {outlook_folders[i].displayName :
                                            i \in 1..Len(outlook_folders)},
                              dest |-> dest, created |-> <<>>,
                              logged |-> sys.logged, failures |-> 0,
                              auth |-> FALSE])
         IN [raised |-> FALSE, mapping |-> usr.mapping, dest |-> usr.dest,
             seen |-> outlook_folders, created |-> usr.created,
             logged |-> usr.logged, failures |-> usr.failures,
             auth |-> usr.auth, labels |-> gmail_labels]

\* ------------------------------------------------------------------------
\* Source mailbox (GmailClient)
\* ------------------------------------------------------------------------
MsgIds == <<"m1", "m2", "m3", "m4">>
AttIds == <<"a1", "a2", "a3", "a4">>

\* an attachment reference as _process_part builds it (lines 454-461)
AttachmentRef(a) ==
    [id |-> AttIds[a], filename |-> "file.txt", mimeType |-> "text/plain"]

\* what parse_email_content returns for the j-th message of a label: the
\* j-th message carries j - 1 attachment parts
ParsedEmail(j) ==
    [id |-> MsgIds[j], attachments |-> [a \in 1..(j - 1) |-> AttachmentRef(a)]]

\* outcomes of one Gmail API call made by GmailClient
\*   ok; http: HttpError other than 401; auth: HttpError 401;
\*   exc: any exception that is no HttpError
AllGmailOutcomes == {"ok", "http", "auth", "exc"}

\* get_email_list (lines 216-259): the message references of one page, and
\* whether the call raised.  n: messages the query matches; from: first one
\* of the page.
GetEmailList(n, from, max_results, o) ==
    [raised |-> o = "exc",
     messages |-> IF o = "ok"
                  THEN [j \in 1..(IF n - from + 1 < max_results
                                  THEN (IF n - from + 1 > 0 THEN n - from + 1 ELSE 0)
                                  ELSE max_results) |-> from + j - 1]
                  ELSE <<>>,
     more |-> o = "ok" /\ from + max_results <= n]

\* get_email_content (lines 293-331): {} on HttpError, raises otherwise
GetEmailContent(j, o) ==
    [raised |-> o = "exc",
     content |-> IF o = "ok" THEN ParsedEmail(j) ELSE EmptyDict]

\* get_emails_with_labels (lines 481-515): fo[k] is the outcome of the
\* content fetch of the k-th listed message.  fetched: the content fetches
\* made before the method returned or raised.
FirstExc(fo) ==
    LET bad == {k \in 1..Len(fo) : fo[k] = "exc"}
    IN IF bad = {} THEN 0 ELSE Min(bad)

GetEmailsWithLabels(n, max_results, lo, fo) ==
    LET listing == GetEmailList(n, 1, max_results, lo)
        stop == FirstExc(fo)
    IN [raised |-> listing.raised \/ stop # 0,
        listed |-> Len(listing.messages),
        fetched |-> IF stop # 0 THEN stop ELSE Len(listing.messages),
        emails |-> [k \in 1..Len(listing.messages) |->
                       GetEmailContent(listing.messages[k], fo[k]).content]]

\* number of references a listing of n messages capped at max_results gives
ListedCount(n, max_results, lo) ==
    Len(GetEmailList(n, 1, max_results, lo).messages)

\* ------------------------------------------------------------------------
\* OutlookClient.migrate_email (lines 559-658) with create_message
\* ------------------------------------------------------------------------
\* create_message (lines 376-479): {} when the request fails
CreateMessage(o) ==
    IF o = "ok" THEN [id |-> "new"] ELSE EmptyDict

\* the attachments add_attachment is called for (lines 636-652): the dict
\* accesses attachment["name"], attachment["content"] raise KeyError inside
\* the try, before the call is made
Uploadable(attachments) ==
    {a \in 1..Len(attachments) :
        {"name", "content"} \subseteq DOMAIN attachments[a]}

\* returns normally for every outcome (the except of line 656 and the
\* one of create_message swallow every exception)
MigrateEmail(gmail_message, attachments, folder_id, o) ==
    LET message == CreateMessage(o)
    IN IF message = EmptyDict
       THEN [raised |-> FALSE, value |-> [error |-> "Failed to create message"],
             created |-> FALSE, add_attachment_calls |-> 0]
       ELSE [raised |-> FALSE, value |-> message, created |-> TRUE,
             add_attachment_calls |->
                 IF Get(message, "id", None) # None
                 THEN Cardinality(Uploadable(attachments)) ELSE 0]

\* ------------------------------------------------------------------------
\* State
\* ------------------------------------------------------------------------
VARIABLES
    catalog,                \* the labels the source holds
    nmsgs,                  \* the messages each label's query matches
    auth_faults,            \* TRUE when provider calls may fail with 401
    dest,                   \* the destination's folders, in listing order
    all_labels_cache,       \* GmailLabelsService._all_labels_cache
    folder_mapping,         \* GmailToOutlookMigrationService.folder_mapping
    update_status_callback, \* TRUE when a status callback is set
    pc,                     \* control position of the orchestrator
    op,                     \* the method invoked by the caller, its arguments
    bl,                     \* activation of migrate_emails_by_label
    ma,                     \* activation of migrate_all_emails
    ia,                     \* activation of import_all_emails
    ret,                    \* how the last invoked method ended
    ops,                    \* migrate_labels_to_folders calls of the caller
    recs,                   \* the last two migrate_labels_to_folders calls
    hist,                   \* what the running method has done so far
    cursor,                 \* a get_email_batches generator and its listing
    labels_calls,           \* the get_all_labels calls made on their own
    wire,                   \* the provider clients and the requests they sent
    limiter,                \* a RateLimiter: max_calls, period, calls
    clock,                  \* what time.time() reads, in seconds
    callers,                \* the threads calling wait(): position and locals
    meter,                  \* what the wait() calls have done so far
    migration_state,        \* the router's module-level state dict
    connected_clients,      \* the list of the subscribers' queues
    queues,                 \* every queue ever created, by identity
    subs,                   \* the status streams: position and events sent
    run,                    \* the request handler that runs a migration
    tape                    \* what the update_migration_state calls did

vars == <<catalog, nmsgs, auth_faults, dest, all_labels_cache, folder_mapping,
          update_status_callback, pc, op, bl, ma, ia, ret, ops, recs, hist,
          cursor, labels_calls, wire, limiter, clock, callers, meter,
          migration_state, connected_clients, queues, subs, run, tape>>

\* the migration service, its providers and its caller
service == <<catalog, nmsgs, auth_faults, dest, all_labels_cache,
             folder_mapping, update_status_callback, pc, op, bl, ma, ia, ret,
             ops, recs, hist>>

\* the utilities exercised on their own
utilities == <<cursor, labels_calls, wire, limiter, clock, callers, meter,
               migration_state, connected_clients, queues, subs, run, tape>>

\* the router (src/app/api/routers/migration.py)
router == <<migration_state, connected_clients, queues, subs, run, tape>>

\* a RateLimiter, its callers and the clock
throttle == <<limiter, clock, callers, meter>>

env == <<catalog, nmsgs, auth_faults, update_status_callback>>

ZeroResult == [total |-> 0, successful |-> 0, failed |-> 0, failed_ids |-> <<>>]

NoOp == [name |-> "none", label |-> "", max |-> 0]
NoRet == [op |-> "none", raised |-> FALSE, value |-> ZeroResult]

\* migrate_emails_by_label before it is entered.  The fields after result
\* record what the activation did: listed = references the listing returned,
\* fetch_failed = listed messages whose content fetch failed, handed =
\* messages passed to migrate_email, created / rejected = positions of the
\* messages the destination created / failed to create, cb_throws = status
\* callbacks that threw, list_calls / reconciled = get_emails_with_labels /
\* migrate_labels_to_folders calls made, get_attachment_calls /
\* add_attachment_calls = attachment calls made, attachment_refs =
\* attachment references of the messages handed over.
NoBL ==
    [label |-> "", max |-> 0, folder |-> NoFolder, emails |-> <<>>, i |-> 0,
     successful |-> 0, failed |-> 0, failed_ids |-> <<>>,
     result |-> ZeroResult, done |-> FALSE, mapped_at_entry |-> FALSE,
     listed |-> 0, fetch_failed |-> {}, handed |-> 0, created |-> {},
     rejected |-> {}, cb_throws |-> 0, list_calls |-> 0, reconciled |-> 0,
     get_attachment_calls |-> 0, add_attachment_calls |-> 0,
     attachment_refs |-> 0, emitted |-> <<>>]

ZeroResults ==
    [total |-> 0, successful |-> 0, failed |-> 0, failed_ids |-> <<>>,
     label_results |-> EmptyDict]

\* migrate_all_emails before it is entered; cb_throws = status callbacks
\* that threw
NoMA ==
    [labels |-> <<>>, i |-> 0, max |-> 0, results |-> ZeroResults,
     cb_throws |-> 0]

\* import_all_emails before it is entered.  from / more: the page token;
\* page: the batch being processed; k: position in it; handed: messages
\* taken from a batch; imported: import_email calls that returned an id;
\* listed: positions of the labels a message listing was requested for;
\* targets: position of the label and endpoint of each import_email call
NoIA ==
    [labels |-> <<>>, i |-> 0, batch |-> 0, folder |-> NoFolder,
     from |-> 0, page |-> <<>>, more |-> FALSE, k |-> 0,
     total |-> 0, successful |-> 0, failed |-> 0, failed_ids |-> <<>>,
     handed |-> 0, imported |-> 0, cb_throws |-> 0,
     listed |-> {}, targets |-> {}]

\* the counters of the caller's MigrationState before a run reports
ZeroLive ==
    [total_emails |-> 0, processed_emails |-> 0, successful_emails |-> 0,
     failed_emails |-> 0, total_labels |-> 0, processed_labels |-> 0]

\* rec_calls: migrate_labels_to_folders calls; bl_calls: the
\* migrate_emails_by_label calls, each with its arguments and whether the
\* label had an entry in folder_mapping when it was made; label_res: the
\* results they returned; auth_seen: a provider call failed with 401;
\* after_auth: messages fetched or submitted after it; live: the counters
\* of the caller's MigrationState, each update merged as it is sent;
\* bl_throws: a status callback threw inside migrate_emails_by_label
NoHist ==
    [rec_calls |-> 0, bl_calls |-> <<>>, label_res |-> <<>>,
     auth_seen |-> FALSE, after_auth |-> 0, live |-> ZeroLive,
     bl_throws |-> FALSE]

\* no get_email_batches generator yet.  state: none, new (constructed, not
\* started), yielded (suspended at the yield), ended, raised; result: the
\* last get_email_list result; requests / pages: the listing calls made and
\* the results they returned; batches: what was yielded
NoCursor ==
    [state |-> "none", batch_size |-> 0, page_token |-> None,
     result |-> [messages |-> <<>>, next_page_token |-> None],
     requests |-> <<>>, pages |-> <<>>, batches |-> <<>>]

\* no get_all_labels call yet.  requests: how each call so far went (cached:
\* answered from the cache; else the outcome of its listing); returned /
\* raised: what the last call handed to its caller
NoListing ==
    [requests |-> <<>>, returned |-> <<>>, raised |-> "none",
     nested |-> [called |-> FALSE, raised |-> FALSE, tree |-> <<>>]]

\* settings.RATE_LIMIT_REQUESTS, the default of settings.py line 40
RATE_LIMIT_REQUESTS == 60

\* HTTP requests and seconds followed on the wire
MaxRequests == 3
MaxWireTime == 4

\* a GmailClient and an OutlookClient that have sent nothing.  now: the
\* wall clock in seconds (time.time() is far from zero when the client is
\* built); last_request_time: GmailClient._last_request_time (line 54);
\* sent: the HTTP requests issued, each with its provider, the client
\* method that issued it, the second it left, and whether a rate-limit
\* acquisition of its own preceded it
NoWire == [now |-> 2, last_request_time |-> 0, sent |-> <<>>]

\* rate_limiter.py line 16
MAX_REQUEST_WAIT_TIME == 60

\* periods a RateLimiter is constructed with: a short one and one longer
\* than the longest sleep
Periods == {2, MAX_REQUEST_WAIT_TIME + 1}

\* RateLimiter.__init__ (lines 23-33)
RateLimiter(max_calls, period) ==
    [max_calls |-> max_calls, period |-> period, calls |-> <<>>]

\* a thread that is not inside wait().  pc: idle, cleanup_test, cleanup_head,
\* cleanup_pop (line 46-47), check (line 57), oldest (line 59), sleep
\* (line 65), append (line 72); after: where _cleanup_old_calls returns to
IdleCaller ==
    [pc |-> "idle", current_time |-> 0, after |-> "check", wake |-> 0]

\* began / ended: the clock when the first wait() was entered and when the
\* last one returned; lost: timestamps popped although inside the window
\* of the thread that popped them
NoMeter ==
    [began |-> 0, ended |-> 0, started |-> 0, returned |-> 0,
     raised |-> 0, lost |-> 0, jumps |-> 0]

\* migration.py lines 25-35: the state the module is loaded with
InitialMigrationState ==
    [status |-> "idle", total_emails |-> 0, processed_emails |-> 0,
     successful_emails |-> 0, failed_emails |-> 0, current_label |-> "",
     total_labels |-> 0, processed_labels |-> 0, logs |-> <<>>]

\* no request handler is running.  pc: idle, import_validate (line 485),
\* service (the awaited service method), blocked (suspended in queue.put);
\* ep, id, outcome: the entry point and number of the last run started and
\* how it ended (none, returned, raised, rejected)
NoRun ==
    [pc |-> "idle", ep |-> "", id |-> 0, updates |-> 0, outcome |-> "none"]

\* a connection that has not been made.  pc: none, registered (lines
\* 194-195 done, the generator not started), baseline (suspended at the
\* yield of line 202), waiting (line 206), yielded (suspended at the yield
\* of line 209), gone, raised; since / left: the updates applied when the
\* queue was registered and when the connection ended
NoSub ==
    [pc |-> "none", since |-> 0, left |-> 0, received |-> <<>>]

\* n: update_migration_state calls so far; logged / plain / bracketed: those
\* with a log line, without one, with a line that starts with "[";
\* prev, update, merged: the state before the last call, its argument and
\* the state after it
NoTape ==
    [n |-> 0, logged |-> 0, plain |-> 0, bracketed |-> 0,
     prev |-> InitialMigrationState, update |-> <<>>,
     merged |-> InitialMigrationState]

\* migration.py lines 25-41: the module as loaded
RouterAtRest ==
    /\ migration_state = InitialMigrationState
    /\ connected_clients = <<>>
    /\ queues = <<>>
    /\ subs = [q \in 1..MaxSubscribers |-> NoSub]
    /\ run = NoRun
    /\ tape = NoTape

\* a freshly constructed service (lines 23-37) in front of some mailbox
Init ==
    /\ catalog \in Catalogs
    /\ nmsgs \in 0..MaxMsgs
    /\ auth_faults \in BOOLEAN
    /\ dest \in InitialFolders
    /\ all_labels_cache = <<>>
    /\ folder_mapping = EmptyDict
    /\ update_status_callback \in BOOLEAN
    /\ pc = "idle"
    /\ op = NoOp
    /\ bl = NoBL
    /\ ma = NoMA
    /\ ia = NoIA
    /\ ret = NoRet
    /\ ops = 0
    /\ recs = <<>>
    /\ hist = NoHist
    /\ cursor = NoCursor /\ labels_calls = NoListing /\ wire = NoWire
    /\ limiter \in {RateLimiter(max_calls, period) :
                        max_calls \in 0..MaxCalls, period \in Periods}
    /\ clock = 0
    /\ callers = [t \in {1} |-> IdleCaller]
    /\ meter = NoMeter
    /\ RouterAtRest

\* a RateLimiter nobody calls
ThrottleAtRest ==
    /\ limiter = RateLimiter(1, 2)
    /\ clock = 0
    /\ callers = [t \in {1} |-> IdleCaller]
    /\ meter = NoMeter

RequestOutcomes ==
    IF auth_faults THEN AllRequestOutcomes ELSE AllRequestOutcomes \ {"auth"}
GmailOutcomes ==
    IF auth_faults THEN AllGmailOutcomes ELSE AllGmailOutcomes \ {"auth"}

\* what the label listing yields when the call is made: the catalog, or
\* nothing when the call fails
LabelFetches == {catalog, <<>>}

ListingOutcomes ==
    IF auth_faults THEN AllListingOutcomes ELSE AllListingOutcomes \ {"auth"}

\* outcomes of one status callback invocation: it throws only when set
CallbackOutcomes == IF update_status_callback THEN {"ok", "throw"} ELSE {"ok"}

UserCount(labels) == Len(SelectSeq(labels, IsUser))

\* provider calls in the order made: fetch / submit TRUE for a message
\* content fetch / a message submission, auth TRUE when the call failed
\* with 401
Call(kind, o) ==
    [fetch |-> kind = "fetch", submit |-> kind = "submit", auth |-> o = "auth"]

RECURSIVE Track(_, _)
Track(h, calls) ==
    IF calls = <<>> THEN h
    ELSE LET c == Head(calls)
             h1 == IF h.auth_seen /\ (c.fetch \/ c.submit)
                   THEN [h EXCEPT !.after_auth = @ + 1] ELSE h
             h2 == IF c.auth THEN [h1 EXCEPT !.auth_seen = TRUE] ELSE h1
         IN Track(h2, Tail(calls))

\* ------------------------------------------------------------------------
\* A call of migrate_labels_to_folders (lines 54-137)
\* ------------------------------------------------------------------------
\* the values of the service, the destination and the history after it;
\* cache: the label cache when it is called
Reconciled(h, cache, fetched, listing, outcomes) ==
    LET g == GetAllLabels(cache, fetched)
        r == MigrateLabelsToFolders(g.labels, dest, listing, outcomes)
    IN [raised |-> r.raised,
        cache |-> g.cache,
        dest |-> r.dest,
        mapping |-> IF r.raised THEN folder_mapping ELSE r.mapping,
        recs |-> IF Len(recs) = 2 THEN <<recs[2], r>> ELSE Append(recs, r),
        hist |-> [Track(h, <<Call("other", IF r.auth THEN "auth" ELSE "ok")>>)
                     EXCEPT !.rec_calls = @ + 1]]

\* the create_folder outcomes to choose from when the labels are fetched
CreateOutcomes(cache, fetched) ==
    [1..UserCount(GetAllLabels(cache, fetched).labels) -> RequestOutcomes]

\* the caller invokes migrate_labels_to_folders
CallMigrateLabelsToFolders ==
    /\ pc = "idle"
    /\ ops < MaxReconciles
    /\ \E fetched \in LabelFetches, listing \in RequestOutcomes :
         \E outcomes \in CreateOutcomes(all_labels_cache, fetched) :
            LET r == Reconciled(NoHist, all_labels_cache, fetched, listing,
                                outcomes)
            IN /\ all_labels_cache' = r.cache
               /\ dest' = r.dest
               /\ folder_mapping' = r.mapping
               /\ recs' = r.recs
               /\ hist' = r.hist
               /\ ret' = [op |-> "labels", raised |-> r.raised,
                          value |-> r.mapping]
    /\ op' = [name |-> "labels", label |-> "", max |-> 0]
    /\ ops' = ops + 1
    /\ UNCHANGED <<env, utilities, pc, bl, ma, ia>>

\* ------------------------------------------------------------------------
\* migrate_emails_by_label (lines 174-323)
\* ------------------------------------------------------------------------
\* the activation ends with result r: control goes back to whoever called
\* an update that reaches nobody
ReportNothing(h, update) == h

\* _update_status (lines 39-52) and the guarded calls of lines 232, 258,
\* 280, 300: with a callback set, the update is handed to it, and the
\* caller's state takes the fields it carries (migration.py lines 69-72)
Report(h, update) ==
    IF update_status_callback
    THEN [h EXCEPT !.live = update @@ @]
    ELSE h

\* an activation that keeps no record of its updates
SentNothing(b, update) == b

\* the updates migrate_emails_by_label has handed to the callback, in order
Sent(b, update) ==
    IF update_status_callback
    THEN [b EXCEPT !.emitted = Append(@, update)]
    ELSE b

BLEnd(b, r) == [b EXCEPT !.result = r, !.done = TRUE]
BLReturnTo == IF op.name = "all" THEN "ma_after" ELSE "done"
BLRet(r) ==
    IF op.name = "all" THEN ret
    ELSE [op |-> "by_label", raised |-> FALSE, value |-> r]

\* a fresh activation for (label_id, max_emails)
BLEnter(label_id, max_emails) ==
    [NoBL EXCEPT !.label = label_id, !.max = max_emails,
                 !.mapped_at_entry = label_id \in DOMAIN folder_mapping]

\* the call as the history records it
BLCall(b) == [label |-> b.label, max |-> b.max, mapped |-> b.mapped_at_entry]

\* the check of lines 191 and 200 left out
UnresolvedNever(outlook_folder_id) == FALSE

\* the check of lines 191 and 200 taken whatever the mapping says
UnresolvedAlways(outlook_folder_id) == TRUE

\* line 191, 200: if not outlook_folder_id
Unresolved(outlook_folder_id) == outlook_folder_id = NoFolder

\* lines 187-205: resolve the folder, reconciling once when there is none;
\* a reconciliation that raises is caught by the except of line 321
BLResolve ==
    /\ pc = "bl_start"
    /\ LET fid == Get(folder_mapping, bl.label, NoFolder)
       IN IF ~Unresolved(fid)
          THEN /\ bl' = [bl EXCEPT !.folder = fid]
               /\ pc' = "bl_list"
               /\ hist' = [hist EXCEPT !.bl_calls = Append(@, BLCall(bl))]
               /\ UNCHANGED <<all_labels_cache, dest, folder_mapping, recs, ret>>
          ELSE \E fetched \in LabelFetches, listing \in RequestOutcomes :
                 \E outcomes \in CreateOutcomes(all_labels_cache, fetched) :
                    LET r == Reconciled(hist, all_labels_cache, fetched,
                                        listing, outcomes)
                        fid2 == Get(r.mapping, bl.label, NoFolder)
                        b == [bl EXCEPT !.reconciled = @ + 1]
                    IN /\ all_labels_cache' = r.cache
                       /\ dest' = r.dest
                       /\ folder_mapping' = r.mapping
                       /\ recs' = r.recs
                       /\ hist' = [r.hist EXCEPT
                                     !.bl_calls = Append(@, BLCall(bl))]
                       /\ IF r.raised \/ Unresolved(fid2)
                          THEN /\ bl' = BLEnd(b, ZeroResult)
                               /\ pc' = BLReturnTo
                               /\ ret' = BLRet(ZeroResult)
                          ELSE /\ bl' = [b EXCEPT !.folder = fid2]
                               /\ pc' = "bl_list"
                               /\ ret' = ret
    /\ UNCHANGED <<env, utilities, op, ma, ia, ops>>

\* the provider calls get_emails_with_labels makes, in order
ListingCalls(lo, fo, fetched) ==
    <<Call("list", lo)>> \o [k \in 1..fetched |-> Call("fetch", fo[k])]

\* lines 207-246: list the label's emails with their content, announce the
\* label to the status callback (cb); whatever raises here is caught by the
\* except of line 244
BLList ==
    /\ pc = "bl_list"
    /\ \E lo \in GmailOutcomes, cb \in CallbackOutcomes :
         \E fo \in [1..ListedCount(nmsgs, bl.max, lo) -> GmailOutcomes] :
            LET g == GetEmailsWithLabels(nmsgs, bl.max, lo, fo)
                announced == ~g.raised /\ g.emails # <<>>
                update == [total_emails |-> Len(g.emails)]
                b0 == [bl EXCEPT
                        !.list_calls = @ + 1,
                        !.listed = g.listed,
                        !.fetch_failed = {k \in 1..g.fetched : fo[k] # "ok"},
                        !.cb_throws = IF announced /\ cb = "throw"
                                      THEN @ + 1 ELSE @]
                b == IF announced THEN Sent(b0, update) ELSE b0
                h == Track(hist, ListingCalls(lo, fo, g.fetched))
            IN /\ hist' = IF announced
                          THEN [Report(h, update) EXCEPT
                                  !.bl_throws = @ \/ cb = "throw"]
                          ELSE h
               /\ IF ~announced \/ cb = "throw"
                  THEN /\ bl' = BLEnd(b, ZeroResult)
                       /\ pc' = BLReturnTo
                       /\ ret' = BLRet(ZeroResult)
                  ELSE /\ bl' = [b EXCEPT !.emails = g.emails, !.i = 1]
                       /\ pc' = "bl_msg"
                       /\ ret' = ret
    /\ UNCHANGED <<env, utilities, dest, all_labels_cache, folder_mapping, op, ma, ia,
                   ops, recs>>

\* lines 313-319
BLResult(b) ==
    [total |-> Len(b.emails), successful |-> b.successful,
     failed |-> b.failed, failed_ids |-> b.failed_ids]

\* lines 269-277: hand the email to the destination and count it; m is what
\* migrate_email did.  No get_attachment call is made.
Transferred(b, m, email) ==
    [b EXCEPT
       !.successful = @ + 1,
       !.handed = @ + 1,
       !.created = IF m.created THEN @ \cup {b.i} ELSE @,
       !.rejected = IF m.created THEN @ ELSE @ \cup {b.i},
       !.attachment_refs = @ + Len(Get(email, "attachments", <<>>)),
       !.add_attachment_calls = @ + m.add_attachment_calls]

\* lines 294-297: the except clause of the message
CountFailed(b, email_id) ==
    [b EXCEPT !.failed = @ + 1, !.failed_ids = Append(@, email_id)]

\* lines 253-311: one iteration of the loop over emails.  cb1, cb2, cb3: the
\* outcomes of the status callbacks of lines 259, 282 and 301; o: the
\* outcome of the create-message request.  A throw of cb1 or cb3 is caught
\* by the except of line 321, a throw of cb2 by the except of line 294.
BLMessage ==
    /\ pc = "bl_msg"
    /\ \E cb1 \in CallbackOutcomes, cb2 \in CallbackOutcomes,
          cb3 \in CallbackOutcomes, o \in RequestOutcomes :
         LET email == bl.emails[bl.i]
             email_id == Get(email, "id", None)
             m == MigrateEmail(email, Get(email, "attachments", <<>>),
                               bl.folder, o)
             update1 == [processed_emails |-> bl.i - 1]
             update2 == [processed_emails |-> bl.i,
                         successful_emails |-> bl.successful + 1,
                         failed_emails |-> bl.failed]
             update3 == [processed_emails |-> bl.i,
                         successful_emails |-> bl.successful + 1,
                         failed_emails |-> bl.failed + 1]
             b0 == Sent(bl, update1)
             b1 == Sent(Transferred(b0, m, email), update2)
             b2 == IF cb2 = "throw"
                   THEN [Sent(CountFailed(b1, email_id), update3) EXCEPT
                           !.cb_throws = @ + 1]
                   ELSE b1
             aborted == cb1 = "throw" \/ (cb2 = "throw" /\ cb3 = "throw")
             b3 == IF cb1 = "throw" THEN [b0 EXCEPT !.cb_throws = @ + 1]
                   ELSE IF cb2 = "throw" /\ cb3 = "throw"
                        THEN [b2 EXCEPT !.cb_throws = @ + 1]
                        ELSE [b2 EXCEPT !.i = @ + 1]
             h == [Track(hist, <<Call("submit", o)>>) EXCEPT
                     !.bl_throws = @ \/ cb2 = "throw"]
         IN /\ hist' = IF cb1 = "throw"
                       THEN Report([hist EXCEPT !.bl_throws = TRUE], update1)
                       ELSE IF cb2 = "throw"
                       THEN Report(Report(Report(h, update1), update2),
                                   update3)
                       ELSE Report(Report(h, update1), update2)
            /\ IF aborted
               THEN /\ bl' = BLEnd(b3, ZeroResult)
                    /\ pc' = BLReturnTo
                    /\ ret' = BLRet(ZeroResult)
               ELSE IF b3.i > Len(b3.emails)
                    THEN /\ bl' = BLEnd(b3, BLResult(b3))
                         /\ pc' = BLReturnTo
                         /\ ret' = BLRet(BLResult(b3))
                    ELSE /\ bl' = b3
                         /\ pc' = "bl_msg"
                         /\ ret' = ret
    /\ UNCHANGED <<env, utilities, dest, all_labels_cache, folder_mapping, op, ma, ia,
                   ops, recs>>

\* label ids a caller may pass: those of the catalog and an unknown one
LabelArgs == {catalog[i].id : i \in 1..Len(catalog)} \cup {"L9"}

\* the caller invokes migrate_emails_by_label(label_id, max_emails)
CallMigrateEmailsByLabel ==
    /\ pc = "idle"
    /\ \E label_id \in LabelArgs, max_emails \in 1..MaxMsgs :
         /\ op' = [name |-> "by_label", label |-> label_id, max |-> max_emails]
         /\ bl' = BLEnter(label_id, max_emails)
    /\ pc' = "bl_start"
    /\ hist' = NoHist
    /\ ret' = NoRet
    /\ recs' = <<>>
    /\ UNCHANGED <<env, utilities, dest, all_labels_cache, folder_mapping, ma, ia, ops>>

\* ------------------------------------------------------------------------
\* migrate_all_emails (lines 325-437)
\* ------------------------------------------------------------------------
\* the run ends: it returns value, or an exception leaves it
Returned(name, value) == [op |-> name, raised |-> FALSE, value |-> value]
Raised(name) == [op |-> name, raised |-> TRUE, value |-> ZeroResult]

\* the caller invokes migrate_all_emails(max_emails_per_label)
CallMigrateAllEmails ==
    /\ pc = "idle"
    /\ \E max_emails \in 1..MaxMsgs :
         /\ op' = [name |-> "all", label |-> "", max |-> max_emails]
         /\ ma' = [NoMA EXCEPT !.max = max_emails]
    /\ pc' = "ma_start"
    /\ hist' = NoHist
    /\ ret' = NoRet
    /\ recs' = <<>>
    /\ UNCHANGED <<env, utilities, dest, all_labels_cache, folder_mapping, bl, ia, ops>>

\* lines 337-351: fetch the labels, report them (cb1), reconcile when the
\* mapping is empty (announced by cb2).  fetched2: what the label listing
\* yields when the reconciliation has to ask again.
MAStart ==
    /\ pc = "ma_start"
    /\ \E fetched \in LabelFetches, fetched2 \in LabelFetches,
          cb1 \in CallbackOutcomes, cb2 \in CallbackOutcomes,
          listing \in RequestOutcomes :
         LET g == GetAllLabels(all_labels_cache, fetched)
             update == [total_labels |-> Len(g.labels), processed_labels |-> 0]
         IN \E outcomes \in CreateOutcomes(g.cache, fetched2) :
              LET r == Reconciled(hist, g.cache, fetched2, listing, outcomes)
              IN IF cb1 = "throw"
                 THEN /\ all_labels_cache' = g.cache
                      /\ pc' = "done"
                      /\ ret' = Raised("all")
                      /\ hist' = Report(hist, update)
                      /\ UNCHANGED <<dest, folder_mapping, recs, ma>>
                 ELSE IF folder_mapping # EmptyDict
                 THEN /\ all_labels_cache' = g.cache
                      /\ ma' = [ma EXCEPT !.labels = g.labels, !.i = 1]
                      /\ pc' = "ma_label"
                      /\ hist' = Report(hist, update)
                      /\ UNCHANGED <<dest, folder_mapping, recs, ret>>
                 ELSE IF cb2 = "throw"
                 THEN /\ all_labels_cache' = g.cache
                      /\ pc' = "done"
                      /\ ret' = Raised("all")
                      /\ hist' = Report(hist, update)
                      /\ UNCHANGED <<dest, folder_mapping, recs, ma>>
                 ELSE /\ all_labels_cache' = r.cache
                      /\ dest' = r.dest
                      /\ folder_mapping' = r.mapping
                      /\ recs' = r.recs
                      /\ hist' = Report(r.hist, update)
                      /\ IF r.raised
                         THEN pc' = "done" /\ ret' = Raised("all") /\ ma' = ma
                         ELSE /\ ma' = [ma EXCEPT !.labels = g.labels, !.i = 1]
                              /\ pc' = "ma_label"
                              /\ ret' = ret
    /\ UNCHANGED <<env, utilities, op, bl, ia, ops>>

\* the check of line 367 left out
HasNoIdNever(label) == FALSE

\* line 367: if not label_id
HasNoId(label) == label.id = ""

\* lines 363-390 and 419-437: take the next label and call
\* migrate_emails_by_label for it (after the status update cb), or end the
\* run after the last one (final status update cb)
MALabel ==
    /\ pc = "ma_label"
    /\ \E cb \in CallbackOutcomes :
         IF ma.i > Len(ma.labels)
         THEN /\ pc' = "done"
              /\ ret' = IF cb = "throw" THEN Raised("all")
                        ELSE Returned("all", ma.results)
              /\ ma' = IF cb = "throw" THEN [ma EXCEPT !.cb_throws = @ + 1]
                        ELSE ma
              /\ hist' = Report(hist, [processed_labels |-> Len(ma.labels)])
              /\ bl' = bl
         ELSE IF HasNoId(ma.labels[ma.i])
         THEN /\ ma' = [ma EXCEPT !.i = @ + 1]
              /\ UNCHANGED <<pc, ret, bl, hist>>
         ELSE IF cb = "throw"
         THEN /\ pc' = "done"
              /\ ret' = Raised("all")
              /\ ma' = [ma EXCEPT !.cb_throws = @ + 1]
              /\ hist' = Report(hist, [processed_labels |-> ma.i - 1])
              /\ bl' = bl
         ELSE /\ bl' = BLEnter(ma.labels[ma.i].id, ma.max)
              /\ pc' = "bl_start"
              /\ hist' = Report(hist, [processed_labels |-> ma.i - 1])
              /\ UNCHANGED <<ma, ret>>
    /\ UNCHANGED <<env, utilities, dest, all_labels_cache, folder_mapping, op, ia, ops,
                   recs>>

\* line 396 assigning the label's failed ids instead of extending by them
AccumulateAssign(results, label_id, label_results) ==
    [total |-> results.total + label_results.total,
     successful |-> results.successful + label_results.successful,
     failed |-> results.failed + label_results.failed,
     failed_ids |-> label_results.failed_ids,
     label_results |-> Put(results.label_results, label_id, label_results)]

\* lines 392-397: fold one label's results into the run's results
Accumulate(results, label_id, label_results) ==
    [total |-> results.total + label_results.total,
     successful |-> results.successful + label_results.successful,
     failed |-> results.failed + label_results.failed,
     failed_ids |-> results.failed_ids \o label_results.failed_ids,
     label_results |-> Put(results.label_results, label_id, label_results)]

\* lines 392-417: migrate_emails_by_label has returned
MAAfter ==
    /\ pc = "ma_after"
    /\ \E cb \in CallbackOutcomes :
         /\ ma' = [ma EXCEPT
                     !.results = Accumulate(@, ma.labels[ma.i].id, bl.result),
                     !.i = @ + 1,
                     !.cb_throws = IF cb = "throw" THEN @ + 1 ELSE @]
         /\ hist' = Report([hist EXCEPT !.label_res = Append(@, bl.result)],
                           [processed_labels |-> ma.i,
                            total_emails |-> ma'.results.total,
                            successful_emails |-> ma'.results.successful,
                            failed_emails |-> ma'.results.failed])
         /\ IF cb = "throw"
            THEN pc' = "done" /\ ret' = Raised("all")
            ELSE pc' = "ma_label" /\ ret' = ret
    /\ UNCHANGED <<env, utilities, dest, all_labels_cache, folder_mapping, op, bl, ia,
                   ops, recs>>

\* ------------------------------------------------------------------------
\* import_all_emails (lines 439-620)
\* ------------------------------------------------------------------------
\* the caller invokes import_all_emails(max_emails_per_batch)
CallImportAllEmails ==
    /\ pc = "idle"
    /\ \E batch \in 1..MaxMsgs :
         /\ op' = [name |-> "import", label |-> "", max |-> batch]
         /\ ia' = [NoIA EXCEPT !.batch = batch]
    /\ pc' = "ia_start"
    /\ hist' = NoHist
    /\ ret' = NoRet
    /\ recs' = <<>>
    /\ UNCHANGED <<env, utilities, dest, all_labels_cache, folder_mapping, bl, ma, ops>>

\* lines 453-481: announce the run (cb1), reconcile, fetch the labels
\* (fetched2 when the cache is still empty), report them (cb2)
IAStart ==
    /\ pc = "ia_start"
    /\ \E fetched \in LabelFetches, fetched2 \in LabelFetches,
          cb1 \in CallbackOutcomes, cb2 \in CallbackOutcomes,
          listing \in RequestOutcomes :
         \E outcomes \in CreateOutcomes(all_labels_cache, fetched) :
            LET r == Reconciled(hist, all_labels_cache, fetched, listing,
                                outcomes)
                g == GetAllLabels(r.cache, fetched2)
                update == [total_labels |-> Len(g.labels),
                           processed_labels |-> 0]
            IN IF cb1 = "throw"
               THEN /\ pc' = "done"
                    /\ ret' = Raised("import")
                    /\ UNCHANGED <<all_labels_cache, dest, folder_mapping,
                                   recs, hist, ia>>
               ELSE /\ dest' = r.dest
                    /\ folder_mapping' = r.mapping
                    /\ recs' = r.recs
                    /\ hist' = IF r.raised THEN r.hist
                               ELSE Report(r.hist, update)
                    /\ IF r.raised
                       THEN /\ all_labels_cache' = r.cache
                            /\ pc' = "done"
                            /\ ret' = Raised("import")
                            /\ ia' = ia
                       ELSE /\ all_labels_cache' = g.cache
                            /\ IF cb2 = "throw"
                               THEN pc' = "done" /\ ret' = Raised("import")
                                    /\ ia' = ia
                               ELSE /\ ia' = [ia EXCEPT !.labels = g.labels,
                                                        !.i = 1]
                                    /\ pc' = "ia_label"
                                    /\ ret' = ret
    /\ UNCHANGED <<env, utilities, op, bl, ma, ops>>

\* lines 615-620
IAResult(a) ==
    [total |-> a.total, successful |-> a.successful, failed |-> a.failed,
     failed_ids |-> a.failed_ids]

\* lines 484-504 and 603-620: take the next label (status update cb1); skip
\* it when it has no folder (status update cb2); after the last label send
\* the final update (cb1) and return
IALabel ==
    /\ pc = "ia_label"
    /\ \E cb1 \in CallbackOutcomes, cb2 \in CallbackOutcomes :
         IF cb1 = "throw"
         THEN /\ pc' = "done"
              /\ ret' = Raised("import")
              /\ ia' = [ia EXCEPT !.cb_throws = @ + 1]
         ELSE IF ia.i > Len(ia.labels)
         THEN /\ pc' = "done"
              /\ ret' = Returned("import", IAResult(ia))
              /\ ia' = ia
         ELSE LET folder_id == Get(folder_mapping, ia.labels[ia.i].id, NoFolder)
              IN IF Unresolved(folder_id)
                 THEN IF cb2 = "throw"
                      THEN /\ pc' = "done"
                           /\ ret' = Raised("import")
                           /\ ia' = [ia EXCEPT !.cb_throws = @ + 1]
                      ELSE /\ ia' = [ia EXCEPT !.i = @ + 1]
                           /\ UNCHANGED <<pc, ret>>
                 ELSE /\ ia' = [ia EXCEPT !.folder = folder_id, !.from = 1]
                      /\ pc' = "ia_page"
                      /\ ret' = ret
    /\ hist' = Report(hist, [processed_labels |->
                               IF ia.i > Len(ia.labels) THEN Len(ia.labels)
                               ELSE ia.i - 1])
    /\ UNCHANGED <<env, utilities, dest, all_labels_cache, folder_mapping, op, bl, ma,
                   ops, recs>>

\* the except of line 597 missing: what ends the label ends the run
IANextLabelUnwinds(a, cb) ==
    /\ pc' = "done"
    /\ ret' = Raised("import")
    /\ ia' = a

\* the label is left: because its batches are exhausted, or through the
\* except of line 597, whose status update is cb
IANextLabel(a, cb) ==
    IF cb = "throw"
    THEN /\ pc' = "done"
         /\ ret' = Raised("import")
         /\ ia' = [a EXCEPT !.cb_throws = @ + 1]
    ELSE /\ pc' = "ia_label"
         /\ ret' = ret
         /\ ia' = [a EXCEPT !.i = @ + 1]

\* get_email_batches (lines 261-291) asked for its next batch, and lines
\* 510-523: lo is the outcome of the page's get_email_list, cb the status
\* update of the batch, cbx the one of the except of line 597
IAPage ==
    /\ pc = "ia_page"
    /\ \E lo \in GmailOutcomes, cb \in CallbackOutcomes,
          cbx \in CallbackOutcomes :
         LET l == GetEmailList(nmsgs, ia.from, ia.batch, lo)
             a == [ia EXCEPT !.listed = @ \cup {ia.i}]
         IN /\ hist' = Track(hist, <<Call("list", lo)>>)
            /\ IF l.raised
               THEN IANextLabel(a, cbx)
               ELSE IF l.messages = <<>>
               THEN IANextLabel(a, "ok")
               ELSE IF cb = "throw"
               THEN IANextLabel([a EXCEPT !.cb_throws = @ + 1], cbx)
               ELSE /\ ia' = [a EXCEPT !.page = l.messages, !.more = l.more,
                                       !.k = 1]
                    /\ pc' = "ia_msg"
                    /\ ret' = ret
    /\ UNCHANGED <<env, utilities, dest, all_labels_cache, folder_mapping, op, bl, ma,
                   ops, recs>>

\* outcomes of import_email (lines 530-557): those of its request, and
\* empty: a 2xx response that carries no message id
ImportOutcomes == RequestOutcomes \cup {"empty"}

\* an import that goes to the mailbox whatever folder is asked for
ImportEndpointDefault(folder_id) == "/me/messages/$value"

\* OutlookClient.import_email, lines 548-552: the folder the request names,
\* or the mailbox when folder_id is falsy
ImportEndpoint(folder_id) ==
    IF folder_id # NoFolder /\ folder_id # "" THEN folder_id
    ELSE "/me/messages/$value"

\* lines 550-552 of the orchestrator: import_email(mime_content, folder_id)
\* is called for a message of the label at a.i
Imported(a) ==
    [a EXCEPT !.targets = @ \cup {<<a.i, ImportEndpoint(a.folder)>>}]

\* lines 540-541, 560-561, 582-583
IAFailed(a, email_id) ==
    [a EXCEPT !.failed = @ + 1, !.failed_ids = Append(@, email_id)]

\* the message is done and the loops go on: next message of the batch, next
\* batch (lines 286-288) or next label
IAAdvance(a) ==
    IF a.k < Len(a.page)
    THEN /\ ia' = [a EXCEPT !.k = @ + 1]
         /\ UNCHANGED <<pc, ret>>
    ELSE IF a.more
    THEN /\ ia' = [a EXCEPT !.from = @ + a.batch]
         /\ pc' = "ia_page"
         /\ ret' = ret
    ELSE IANextLabel(a, "ok")

\* lines 580-595: the except clause of the message; cbe is its status
\* update, whose throw reaches the except of line 597 (status update cbx)
IAExcept(a, email_id, cbe, cbx) ==
    IF cbe = "throw"
    THEN IANextLabel([IAFailed(a, email_id) EXCEPT !.cb_throws = @ + 1], cbx)
    ELSE IAAdvance(IAFailed(a, email_id))

\* the counters the updates of lines 567 and 584 carry
IACounters(total, successful, failed) ==
    [total_emails |-> total, processed_emails |-> total,
     successful_emails |-> successful, failed_emails |-> failed]

\* lines 526-595: one message of the batch.  co: outcome of
\* get_email_content (exc also stands for a raw content that does not
\* decode, lines 545-547); io: outcome of import_email; cbs: the status
\* update of line 567.
IAMessage ==
    /\ pc = "ia_msg"
    /\ \E co \in GmailOutcomes, io \in ImportOutcomes,
          cbs \in CallbackOutcomes, cbe \in CallbackOutcomes,
          cbx \in CallbackOutcomes :
         LET email_id == MsgIds[ia.page[ia.k]]
             a0 == [ia EXCEPT !.total = @ + 1, !.handed = @ + 1]
             full_email == GetEmailContent(ia.page[ia.k], co)
             a1 == IF io = "ok"
                   THEN [a0 EXCEPT !.successful = @ + 1, !.imported = @ + 1]
                   ELSE IAFailed(a0, email_id)
             h1 == Track(hist, <<Call("fetch", co)>>)
             h2 == Track(hist, <<Call("fetch", co), Call("submit", io)>>)
             total == ia.total + 1
             successful == IF io = "ok" THEN ia.successful + 1
                           ELSE ia.successful
             failed == IF io = "ok" THEN ia.failed ELSE ia.failed + 1
             excepted == IACounters(total, ia.successful, ia.failed + 1)
             counted == IACounters(total, successful, failed)
         IN IF full_email.raised
            THEN /\ hist' = Report(h1, excepted)
                 /\ IAExcept(a0, email_id, cbe, cbx)
            ELSE IF full_email.content = EmptyDict
            THEN /\ hist' = h1
                 /\ IAAdvance(IAFailed(a0, email_id))
            ELSE /\ hist' = IF io \in {"auth", "error"}
                            THEN Report(h2, excepted)
                            ELSE IF cbs = "throw"
                            THEN Report(Report(h2, counted),
                                        IACounters(total, successful,
                                                   failed + 1))
                            ELSE Report(h2, counted)
                 /\ IF io \in {"auth", "error"}
                    THEN IAExcept(Imported(a0), email_id, cbe, cbx)
                    ELSE IF cbs = "throw"
                    THEN IAExcept([Imported(a1) EXCEPT !.cb_throws = @ + 1],
                                  email_id, cbe, cbx)
                    ELSE IAAdvance(Imported(a1))
    /\ UNCHANGED <<env, utilities, dest, all_labels_cache, folder_mapping, op, bl, ma,
                   ops, recs>>

\* ------------------------------------------------------------------------
\* GmailClient.get_email_batches (lines 261-291) over an arbitrary listing
\* ------------------------------------------------------------------------
\* what a messages().list call can answer: a page of message references and
\* a continuation token, or none
PageMessages == {<<>>, <<"a">>, <<"b">>}
PageTokens == {None, "t1", "t2"}
Responses ==
    [messages : PageMessages, nextPageToken : PageTokens]

\* get_email_list (lines 230-259) around that call: an HttpError (401 included)
\* becomes an empty result, any other exception is raised
ListedPage(o, response) ==
    IF o = "exc"
    THEN [raised |-> TRUE, messages |-> <<>>, next_page_token |-> None]
    ELSE IF o \in {"http", "auth"}
    THEN [raised |-> FALSE, messages |-> <<>>, next_page_token |-> None]
    ELSE [raised |-> FALSE, messages |-> response.messages,
          next_page_token |-> response.nextPageToken]

\* line 286 keeping the token the page was requested with
BatchesResumedStale(c) ==
    IF c.result.next_page_token = None
    THEN [c EXCEPT !.state = "ended"]
    ELSE [c EXCEPT !.state = "requesting"]

\* lines 286-288: the generator is resumed after a yield
BatchesResumed(c) ==
    IF c.result.next_page_token = None
    THEN [c EXCEPT !.page_token = c.result.next_page_token,
                   !.state = "ended"]
    ELSE [c EXCEPT !.page_token = c.result.next_page_token,
                   !.state = "requesting"]

\* lines 276-284: one listing call and what the generator does with it
BatchesRequested(c, result) ==
    LET asked == [c EXCEPT
                    !.requests = Append(@, [max_results |-> c.batch_size,
                                            page_token |-> c.page_token])]
    IN IF result.raised
       THEN [asked EXCEPT !.state = "raised"]
       ELSE LET got == [asked EXCEPT
                          !.pages = Append(@, [messages |-> result.messages,
                                               next_page_token |->
                                                  result.next_page_token]),
                          !.result = [messages |-> result.messages,
                                      next_page_token |->
                                         result.next_page_token]]
            IN IF result.messages = <<>>
               THEN [got EXCEPT !.state = "ended"]
               ELSE [got EXCEPT !.batches = Append(@, result.messages),
                                !.state = "yielded"]

\* a consumer constructs the generator (line 261)
CallGetEmailBatches ==
    /\ cursor.state \in {"none", "ended", "raised"}
    /\ \E batch_size \in 1..2 :
         cursor' = [NoCursor EXCEPT !.state = "new", !.batch_size = batch_size]
    /\ UNCHANGED <<service, labels_calls, wire, router, throttle>>

\* the consumer asks for the next batch: the generator runs to its next
\* yield, to its end or to an exception
CursorNext ==
    /\ cursor.state \in {"new", "yielded"}
    /\ LET c == IF cursor.state = "new" THEN cursor ELSE BatchesResumed(cursor)
       IN IF c.state = "ended"
          THEN cursor' = c
          ELSE /\ Len(c.requests) <= MaxPages
               /\ \E o \in AllGmailOutcomes, response \in Responses :
                     cursor' = BatchesRequested(c, ListedPage(o, response))
    /\ UNCHANGED <<service, labels_calls, wire, router, throttle>>

\* ------------------------------------------------------------------------
\* RateLimiter (src/app/utils/rate_limiter.py), one deque operation a step
\* ------------------------------------------------------------------------
\* line 43
WindowStart(current_time, period) == current_time - period

\* line 60
WaitTime(oldest_call, period, current_time) ==
    oldest_call + period - current_time

\* line 64
ActualWait(wait_time) ==
    IF wait_time < MAX_REQUEST_WAIT_TIME THEN wait_time
    ELSE MAX_REQUEST_WAIT_TIME

\* the call of thread t raises (IndexError of an empty deque)
WaitRaises(t) ==
    /\ callers' = [callers EXCEPT ![t] = IdleCaller]
    /\ meter' = [meter EXCEPT !.raised = @ + 1]

\* lines 51-54: wait() is entered, the clock is read, cleanup is called
WaitStart(t) ==
    /\ callers[t].pc = "idle"
    /\ meter.started < MaxWaits
    /\ callers' = [callers EXCEPT ![t] =
                     [pc |-> "cleanup_test", current_time |-> clock,
                      after |-> "check", wake |-> 0]]
    /\ meter' = [meter EXCEPT !.started = @ + 1,
                              !.began = IF meter.started = 0 THEN clock ELSE @]
    /\ UNCHANGED <<service, labels_calls, wire, router, cursor, limiter, clock>>

\* line 46: "self.calls" of the loop condition
CleanupTest(t) ==
    /\ callers[t].pc = "cleanup_test"
    /\ callers' = [callers EXCEPT ![t].pc =
                     IF limiter.calls = <<>> THEN callers[t].after
                     ELSE "cleanup_head"]
    /\ UNCHANGED <<service, labels_calls, wire, router, cursor, limiter, clock,
                   meter>>

\* line 46: "self.calls[0] < window_start" of the loop condition
CleanupHead(t) ==
    /\ callers[t].pc = "cleanup_head"
    /\ IF limiter.calls = <<>>
       THEN WaitRaises(t)
       ELSE /\ callers' = [callers EXCEPT ![t].pc =
                  IF limiter.calls[1] <
                        WindowStart(callers[t].current_time, limiter.period)
                  THEN "cleanup_pop" ELSE callers[t].after]
            /\ meter' = meter
    /\ UNCHANGED <<service, labels_calls, wire, router, cursor, limiter, clock>>

\* line 47: popleft
CleanupPop(t) ==
    /\ callers[t].pc = "cleanup_pop"
    /\ IF limiter.calls = <<>>
       THEN WaitRaises(t) /\ limiter' = limiter
       ELSE /\ limiter' = [limiter EXCEPT !.calls = Tail(@)]
            /\ callers' = [callers EXCEPT ![t].pc = "cleanup_test"]
            /\ meter' = [meter EXCEPT !.lost =
                  IF limiter.calls[1] <
                        WindowStart(callers[t].current_time, limiter.period)
                  THEN @ ELSE @ + 1]
    /\ UNCHANGED <<service, labels_calls, wire, router, cursor, clock>>

\* line 57
WaitCheck(t) ==
    /\ callers[t].pc = "check"
    /\ callers' = [callers EXCEPT ![t].pc =
                     IF Len(limiter.calls) >= limiter.max_calls
                     THEN "oldest" ELSE "append"]
    /\ UNCHANGED <<service, labels_calls, wire, router, cursor, limiter, clock,
                   meter>>

\* lines 59-65: the oldest call is read and the sleep, if any, is begun
WaitOldest(t) ==
    /\ callers[t].pc = "oldest"
    /\ IF limiter.calls = <<>>
       THEN WaitRaises(t)
       ELSE LET wait_time == WaitTime(limiter.calls[1], limiter.period,
                                      callers[t].current_time)
            IN /\ callers' = [callers EXCEPT ![t] =
                     IF wait_time > 0
                     THEN [@ EXCEPT !.pc = "sleep",
                                    !.wake = clock + ActualWait(wait_time)]
                     ELSE [@ EXCEPT !.pc = "append"]]
               /\ meter' = meter
    /\ UNCHANGED <<service, labels_calls, wire, router, cursor, limiter, clock>>

\* lines 65-69: the sleep is over, no earlier than asked for; the clock is
\* read again and cleanup is called again
WaitWake(t) ==
    /\ callers[t].pc = "sleep"
    /\ \E late \in 0..1 :
         LET now == (IF clock > callers[t].wake THEN clock
                     ELSE callers[t].wake) + late
         IN /\ clock' = now
            /\ callers' = [callers EXCEPT ![t] =
                  [@ EXCEPT !.pc = "cleanup_test", !.current_time = now,
                            !.after = "append"]]
    /\ UNCHANGED <<service, labels_calls, wire, router, cursor, limiter, meter>>

\* line 72, and wait() returns
WaitAppend(t) ==
    /\ callers[t].pc = "append"
    /\ limiter' = [limiter EXCEPT
                     !.calls = Append(@, callers[t].current_time)]
    /\ callers' = [callers EXCEPT ![t] = IdleCaller]
    /\ meter' = [meter EXCEPT !.returned = @ + 1, !.ended = clock]
    /\ UNCHANGED <<service, labels_calls, wire, router, cursor, clock>>

\* one step of the wait() call of some thread
WaitStep ==
    \E t \in DOMAIN callers :
        \/ WaitStart(t)
        \/ CleanupTest(t)
        \/ CleanupHead(t)
        \/ CleanupPop(t)
        \/ WaitCheck(t)
        \/ WaitOldest(t)
        \/ WaitWake(t)
        \/ WaitAppend(t)

\* time passes
Elapse ==
    /\ meter.jumps < MaxJumps
    /\ \E d \in {1, limiter.period, limiter.period + 1} : clock' = clock + d
    /\ meter' = [meter EXCEPT !.jumps = @ + 1]
    /\ UNCHANGED <<service, labels_calls, wire, router, cursor, limiter, callers>>

\* the system clock is set back
ClockSetBack ==
    /\ meter.jumps < MaxJumps
    /\ \E d \in {1, limiter.period + 1} : clock' = clock - d
    /\ meter' = [meter EXCEPT !.jumps = @ + 1]
    /\ UNCHANGED <<service, labels_calls, wire, router, cursor, limiter, callers>>

\* ------------------------------------------------------------------------
\* The router: migration state, status stream and entry points
\* (src/app/api/routers/migration.py)
\* ------------------------------------------------------------------------
\* line 26
Statuses == {"idle", "running", "completed", "failed"}

\* line 66
LogTailLimit == 100

\* lines 56-61: a line that starts with "[" is taken as it is, any other
\* gets the time of day in front
FormatLogEntry(line) ==
    IF line.bracketed
    THEN [stamp |-> "", text |-> line.text]
    ELSE [stamp |-> "[HH:MM:SS] ", text |-> line.text]

\* line 67 keeping the oldest entries
FirstEntries(logs) ==
    IF Len(logs) > LogTailLimit THEN SubSeq(logs, 1, LogTailLimit) ELSE logs

\* lines 66-67
LastEntries(logs) ==
    IF Len(logs) > LogTailLimit
    THEN SubSeq(logs, Len(logs) - LogTailLimit + 1, Len(logs))
    ELSE logs

\* lines 70-72 replacing the state by the update
UpdateReplacingState(state, update) ==
    [k \in DOMAIN state |->
        IF k = "logs"
        THEN IF "logs" \in DOMAIN update
             THEN LastEntries(Append(state.logs, FormatLogEntry(update.logs)))
             ELSE state.logs
        ELSE IF k \in DOMAIN update THEN update[k]
        ELSE InitialMigrationState[k]]

\* lines 55-72: the state after update_migration_state(update)
UpdateMigrationState(state, update) ==
    [k \in DOMAIN state \cup DOMAIN update |->
        IF k = "logs"
        THEN IF "logs" \in DOMAIN update
             THEN LastEntries(Append(state.logs, FormatLogEntry(update.logs)))
             ELSE state.logs
        ELSE IF k \in DOMAIN update THEN update[k]
        ELSE state[k]]

\* a queue that holds one item at most
BoundedQueue == [maxsize |-> 1, items |-> <<>>]

\* line 194: asyncio.Queue(), maxsize 0
NewQueue == [maxsize |-> 0, items |-> <<>>]

\* asyncio.Queue.full
Full(queue) == queue.maxsize > 0 /\ Len(queue.items) >= queue.maxsize

\* line 76 sending the state as it was before the update
DumpsStale(state, n) == [json |-> tape.merged, n |-> n]

\* line 76: json.dumps(migration_state), the text of the state as it is
\* now; n: the update it was made in
Dumps(state, n) == [json |-> state, n |-> n]

\* lines 75-76: put the snapshot into every queue of the list, in order;
\* blocked: a put found its queue full and suspended the caller
RECURSIVE NotifyAll(_, _, _)
NotifyAll(clients, qs, item) ==
    IF clients = <<>> THEN [queues |-> qs, blocked |-> FALSE]
    ELSE IF Full(qs[Head(clients)]) THEN [queues |-> qs, blocked |-> TRUE]
    ELSE NotifyAll(Tail(clients),
                   [qs EXCEPT ![Head(clients)].items = Append(@, item)],
                   item)

\* lines 45-76: the handler calls update_migration_state(update) and goes
\* on as `after`
Apply(update, after) ==
    LET merged == UpdateMigrationState(migration_state, update)
        sent == NotifyAll(connected_clients, queues,
                          Dumps(merged, tape.n + 1))
    IN /\ migration_state' = merged
       /\ queues' = sent.queues
       /\ tape' = [tape EXCEPT
                     !.n = @ + 1,
                     !.logged = IF "logs" \in DOMAIN update THEN @ + 1 ELSE @,
                     !.plain = IF "logs" \in DOMAIN update THEN @ ELSE @ + 1,
                     !.bracketed = IF "logs" \in DOMAIN update
                                      /\ update.logs.bracketed
                                   THEN @ + 1 ELSE @,
                     !.prev = migration_state,
                     !.update = update,
                     !.merged = merged]
       /\ run' = IF sent.blocked THEN [after EXCEPT !.pc = "blocked"]
                 ELSE after

\* a log line a handler or the service writes during run id
Line(id, msg) == [text |-> [run |-> id, msg |-> msg], bracketed |-> FALSE]

\* some caller calls update_migration_state with a log line, the n-th
LoggedUpdate ==
    /\ run.pc = "idle"
    /\ tape.logged < MaxLogged
    /\ \E bracketed \in IF tape.logged < MaxBracketed THEN BOOLEAN
                         ELSE {FALSE},
          fields \in {<<>>, [processed_emails |-> 1],
                      [current_label |-> "Work", total_emails |-> 1]} :
         Apply(fields @@ [logs |-> [text |-> [run |-> 0,
                                              msg |-> tape.logged + 1],
                                    bracketed |-> bracketed]],
               run)
    /\ UNCHANGED <<service, labels_calls, wire, cursor, throttle,
                   connected_clients, subs>>

\* some caller calls update_migration_state without a log line
PlainUpdate ==
    /\ run.pc = "idle"
    /\ tape.plain < MaxPlain
    /\ \E fields \in {[status |-> "running"],
                      [total_labels |-> 1, processed_labels |-> 0]} :
         Apply(fields, run)
    /\ UNCHANGED <<service, labels_calls, wire, cursor, throttle,
                   connected_clients, subs>>

\* the entry points: migrate_labels_to_folders (233), migrate_emails_by_label
\* (301), migrate_all_emails (370), import_all_emails (453)
Endpoints == {"labels", "by_label", "all", "import"}

\* a first update that names no status
StartUpdateNoStatus(ep, id, label_id) == [logs |-> Line(id, "start")]

\* the first update of a run: lines 276-281, 331-343, 414-426, 504-506
StartUpdate(ep, id, label_id) ==
    CASE ep = "labels" ->
           [status |-> "running", logs |-> Line(id, "start")]
      [] ep = "by_label" ->
           [status |-> "running", total_emails |-> 0, processed_emails |-> 0,
            successful_emails |-> 0, failed_emails |-> 0,
            current_label |-> label_id, total_labels |-> 1,
            processed_labels |-> 0, logs |-> Line(id, "start")]
      [] ep = "all" ->
           [status |-> "running", total_emails |-> 0, processed_emails |-> 0,
            successful_emails |-> 0, failed_emails |-> 0,
            current_label |-> "", total_labels |-> 0,
            processed_labels |-> 0, logs |-> Line(id, "start")]
      [] ep = "import" ->
           [status |-> "running", logs |-> Line(id, "start")]

\* the last update of a run that returned: lines 287-289, 351-360, 433-441,
\* 514-520
FinalUpdate(ep, id) ==
    CASE ep = "labels" -> [logs |-> Line(id, "done")]
      [] ep = "by_label" ->
           [status |-> "completed", processed_labels |-> 1,
            logs |-> Line(id, "done")]
      [] ep \in {"all", "import"} ->
           [status |-> "completed", logs |-> Line(id, "done")]

\* lines 529-531
FailedUpdate(id) == [status |-> "failed", logs |-> Line(id, "failed")]

\* status updates the service sends through the callback
\* (gmail_to_outlook.py lines 233, 259, 282, 341, 377, 406, 454, 567);
\* migrate_labels_to_folders sends none
ServiceUpdates(ep, id) ==
    CASE ep = "labels" -> {}
      [] ep = "by_label" ->
           {[current_label |-> "Work", total_emails |-> 1,
             logs |-> Line(id, "label")],
            [processed_emails |-> 1, successful_emails |-> 1,
             failed_emails |-> 0, logs |-> Line(id, "email")]}
      [] ep = "all" ->
           {[total_labels |-> 1, processed_labels |-> 0],
            [processed_labels |-> 1, total_emails |-> 1,
             successful_emails |-> 0, failed_emails |-> 1,
             logs |-> Line(id, "progress")]}
      [] ep = "import" ->
           {[status |-> "running", logs |-> Line(id, "import")],
            [total_emails |-> 1, processed_emails |-> 1,
             successful_emails |-> 1, failed_emails |-> 0,
             logs |-> Line(id, "email")]}

\* how the awaited service method ends: migrate_emails_by_label catches
\* everything, the others let an error of the folder listing through
ServiceOutcomes(ep) ==
    IF ep = "by_label" THEN {"returned"} ELSE {"returned", "raised"}

\* request.label_id, which only by-label reads (line 338)
LabelIds(ep) == IF ep = "by_label" THEN {"", "L1"} ELSE {""}

\* a request to labels, by-label or all: the credentials are checked (lines
\* 248, 315, 385) and the first update is made
StartRun(ep) ==
    /\ run.pc = "idle"
    /\ run.id < MaxRuns
    /\ \E valid \in BOOLEAN, label_id \in LabelIds(ep) :
         IF valid
         THEN Apply(StartUpdate(ep, run.id + 1, label_id),
                    [pc |-> "service", ep |-> ep, id |-> run.id + 1,
                     updates |-> 0, outcome |-> "none"])
         ELSE /\ run' = [pc |-> "idle", ep |-> ep, id |-> run.id + 1,
                         updates |-> 0, outcome |-> "rejected"]
              /\ UNCHANGED <<migration_state, queues, tape>>
    /\ UNCHANGED <<service, labels_calls, wire, cursor, throttle,
                   connected_clients, subs>>

\* a request to import-all: lines 471-482 rebind the state
ImportReset ==
    /\ run.pc = "idle"
    /\ run.id < MaxRuns
    /\ migration_state' =
          [InitialMigrationState EXCEPT
             !.status = "initializing",
             !.logs = <<[stamp |-> "",
                         text |-> [run |-> run.id + 1, msg |-> "init"]]>>]
    /\ run' = [pc |-> "import_validate", ep |-> "import", id |-> run.id + 1,
               updates |-> 0, outcome |-> "none"]
    /\ UNCHANGED <<service, labels_calls, wire, cursor, throttle,
                   connected_clients, queues, subs,
                   tape>>

\* lines 485-506, or 485 and 527-535 when the credentials are rejected
ImportValidate ==
    /\ run.pc = "import_validate"
    /\ \E valid \in BOOLEAN :
         IF valid
         THEN Apply(StartUpdate("import", run.id, ""),
                    [run EXCEPT !.pc = "service"])
         ELSE Apply(FailedUpdate(run.id),
                    [run EXCEPT !.pc = "idle", !.outcome = "rejected"])
    /\ UNCHANGED <<service, labels_calls, wire, cursor, throttle,
                   connected_clients, subs>>

\* the service reports through update_status_callback
ServiceUpdate ==
    /\ run.pc = "service"
    /\ run.updates < MaxServiceUpdates
    /\ \E update \in ServiceUpdates(run.ep, run.id) :
         Apply(update, [run EXCEPT !.updates = @ + 1])
    /\ UNCHANGED <<service, labels_calls, wire, cursor, throttle,
                   connected_clients, subs>>

\* the service method returns (lines 287-291, 351-362, 433-443, 514-525) or
\* raises (lines 296-298, 365-367, 448-450, 527-535)
ServiceEnd ==
    /\ run.pc = "service"
    /\ \E outcome \in ServiceOutcomes(run.ep) :
         IF outcome = "returned"
         THEN Apply(FinalUpdate(run.ep, run.id),
                    [run EXCEPT !.pc = "idle", !.outcome = "returned"])
         ELSE IF run.ep = "import"
         THEN Apply(FailedUpdate(run.id),
                    [run EXCEPT !.pc = "idle", !.outcome = "raised"])
         ELSE /\ run' = [run EXCEPT !.pc = "idle", !.outcome = "raised"]
              /\ UNCHANGED <<migration_state, queues, tape>>
    /\ UNCHANGED <<service, labels_calls, wire, cursor, throttle,
                   connected_clients, subs>>

\* list.remove(x): the first x is taken out; ValueError when there is none
Remove(list, x) ==
    LET hits == {i \in 1..Len(list) : list[i] = x}
    IN IF hits = {} THEN [raised |-> TRUE, list |-> list]
       ELSE LET i == Min(hits)
            IN [raised |-> FALSE,
                list |-> SubSeq(list, 1, i - 1)
                            \o SubSeq(list, i + 1, Len(list))]

\* lines 210-217: CancelledError is thrown into the generator at line 206
BranchCancelled(list, x) ==
    LET r == Remove(list, x)
    IN IF r.raised THEN r
       ELSE IF x \in {r.list[i] : i \in 1..Len(r.list)}
       THEN Remove(r.list, x)
       ELSE r

\* lines 214-217: the generator is closed at the yield of line 209
BranchFinally(list, x) ==
    IF x \in {list[i] : i \in 1..Len(list)} THEN Remove(list, x)
    ELSE [raised |-> FALSE, list |-> list]

\* the handlers run between two suspensions of the event loop; a run has
\* none, its provider calls are blocking and its queues never full
Schedulable == run.pc \in {"idle", "blocked"}

\* lines 194-197 and 219: GET /status/stream; q: the queue made, the q-th
Subscribe(q) ==
    /\ Schedulable
    /\ subs[q].pc = "none"
    /\ q = Cardinality(DOMAIN queues) + 1
    /\ queues' = (q :> NewQueue) @@ queues
    /\ connected_clients' = Append(connected_clients, q)
    /\ subs' = [subs EXCEPT ![q] = [@ EXCEPT !.pc = "registered",
                                             !.since = tape.n]]
    /\ UNCHANGED <<service, labels_calls, wire, cursor, throttle,
                   migration_state, run, tape>>

\* the generator started without the yield of line 202
StreamBeginSilent(q) ==
    /\ Schedulable
    /\ subs[q].pc = "registered"
    /\ subs' = [subs EXCEPT ![q].pc = "waiting"]
    /\ UNCHANGED <<service, labels_calls, wire, cursor, throttle, migration_state,
                   connected_clients, queues, run, tape>>

\* lines 201-202: the response starts to iterate the generator
StreamBegin(q) ==
    /\ Schedulable
    /\ subs[q].pc = "registered"
    /\ subs' = [subs EXCEPT ![q] =
                  [@ EXCEPT !.pc = "baseline",
                            !.received = <<Dumps(migration_state, tape.n)>>]]
    /\ UNCHANGED <<service, labels_calls, wire, cursor, throttle, migration_state,
                   connected_clients, queues, run, tape>>

\* the response asks for the next event: lines 204-206
StreamResume(q) ==
    /\ Schedulable
    /\ subs[q].pc \in {"baseline", "yielded"}
    /\ subs' = [subs EXCEPT ![q].pc = "waiting"]
    /\ UNCHANGED <<service, labels_calls, wire, cursor, throttle, migration_state,
                   connected_clients, queues, run, tape>>

\* lines 206-209: queue.get returns an item and it is yielded
StreamYield(q) ==
    /\ Schedulable
    /\ subs[q].pc = "waiting"
    /\ queues[q].items # <<>>
    /\ queues' = [queues EXCEPT ![q].items = Tail(@)]
    /\ subs' = [subs EXCEPT ![q] =
                  [@ EXCEPT !.pc = "yielded",
                            !.received = Append(@, Head(queues[q].items))]]
    /\ UNCHANGED <<service, labels_calls, wire, cursor, throttle, migration_state,
                   connected_clients, run, tape>>

\* the connection ends while the generator waits at line 206
StreamCancelled(q) ==
    /\ Schedulable
    /\ subs[q].pc = "waiting"
    /\ LET r == BranchCancelled(connected_clients, q)
       IN /\ connected_clients' = r.list
          /\ subs' = [subs EXCEPT ![q] =
                        [@ EXCEPT !.pc = IF r.raised THEN "raised" ELSE "gone",
                                  !.left = tape.n]]
    /\ UNCHANGED <<service, labels_calls, wire, cursor, throttle,
                   migration_state, queues, run,
                   tape>>

\* the connection ends while the generator is suspended at line 209: it is
\* closed there
StreamClosed(q) ==
    /\ Schedulable
    /\ subs[q].pc = "yielded"
    /\ LET r == BranchFinally(connected_clients, q)
       IN /\ connected_clients' = r.list
          /\ subs' = [subs EXCEPT ![q] =
                        [@ EXCEPT !.pc = IF r.raised THEN "raised" ELSE "gone",
                                  !.left = tape.n]]
    /\ UNCHANGED <<service, labels_calls, wire, cursor, throttle,
                   migration_state, queues, run,
                   tape>>

\* the connection ends before the generator is started, or while it is
\* suspended at line 202, which no try encloses
StreamDropped(q) ==
    /\ Schedulable
    /\ subs[q].pc \in {"registered", "baseline"}
    /\ subs' = [subs EXCEPT ![q] = [@ EXCEPT !.pc = "gone",
                                             !.left = tape.n]]
    /\ UNCHANGED <<service, labels_calls, wire, cursor, throttle, migration_state,
                   connected_clients, queues, run, tape>>

\* one step of some status stream
StreamStep ==
    \E q \in 1..MaxSubscribers :
        \/ Subscribe(q)
        \/ StreamBegin(q)
        \/ StreamResume(q)
        \/ StreamYield(q)
        \/ StreamCancelled(q)
        \/ StreamClosed(q)
        \/ StreamDropped(q)

\* ------------------------------------------------------------------------
\* Specifications
\* ------------------------------------------------------------------------
\* a caller asks the labels service for the labels
CallGetAllLabels ==
    /\ pc = "idle"
    /\ Len(labels_calls.requests) < MaxListings
    /\ \E outcome \in ListingOutcomes :
         LET g == GetAllLabelsCall(all_labels_cache, outcome, catalog)
         IN /\ all_labels_cache' = g.cache
            /\ labels_calls' = [labels_calls EXCEPT
                                  !.requests = Append(@, g.request),
                                  !.returned = g.returned,
                                  !.raised = g.raised]
    /\ UNCHANGED <<catalog, nmsgs, auth_faults, dest, folder_mapping,
                   update_status_callback, pc, op, bl, ma, ia, ret, ops, recs,
                   hist, cursor, wire, throttle, router>>

\* ------------------------------------------------------------------------
\* The provider clients on the wire (gmail/client.py, gmail/labels.py,
\* outlook/client.py)

\* gmail/client.py line 207
MinInterval(requests_per_minute) == 60 \div requests_per_minute

\* an acquisition that never sleeps
RateLimitRequestNoSleep(w) == [w EXCEPT !.last_request_time = w.now]

\* GmailClient._rate_limit_request (lines 198-214): sleep until
\* min_interval has passed since the last acquisition, then note the time
RateLimitRequest(w) ==
    LET time_since_last_request == w.now - w.last_request_time
        min_interval == MinInterval(RATE_LIMIT_REQUESTS)
        woken == IF time_since_last_request < min_interval
                 THEN w.now + (min_interval - time_since_last_request)
                 ELSE w.now
    IN [w EXCEPT !.now = woken, !.last_request_time = woken]

\* one HTTP request leaves; acquired: the client method acquired for it
Execute(w, provider, method, acquired) ==
    [w EXCEPT !.sent = Append(@, [provider |-> provider, method |-> method,
                                  at |-> w.now, acquired |-> acquired])]

\* the round trip of a request takes d seconds
RoundTrip(w, d) == [w EXCEPT !.now = @ + d]

WithinWire(w) == Len(w.sent) <= MaxRequests /\ w.now <= MaxWireTime

WireIdle == pc = "idle" /\ labels_calls = NoListing /\ cursor = NoCursor

\* GmailClient.get_email_list (lines 216-259): acquire, then one request
GmailGetEmailList ==
    /\ WireIdle
    /\ LET w == Execute(RateLimitRequest(wire), "gmail", "get_email_list",
                        TRUE)
       IN WithinWire(w) /\ wire' = w
    /\ UNCHANGED <<service, cursor, labels_calls, throttle, router>>

\* GmailClient.get_email_content (lines 293-331): acquire once, then the
\* format=full request and, a round trip later, the format=raw request
GmailGetEmailContent ==
    /\ WireIdle
    /\ \E d \in 0..1 :
         LET w1 == Execute(RateLimitRequest(wire), "gmail",
                           "get_email_content", TRUE)
             w2 == Execute(RoundTrip(w1, d), "gmail", "get_email_content",
                           FALSE)
         IN WithinWire(w2) /\ wire' = w2
    /\ UNCHANGED <<service, cursor, labels_calls, throttle, router>>

\* GmailClient.get_attachment (lines 333-367): acquire, then one request
GmailGetAttachment ==
    /\ WireIdle
    /\ LET w == Execute(RateLimitRequest(wire), "gmail", "get_attachment",
                        TRUE)
       IN WithinWire(w) /\ wire' = w
    /\ UNCHANGED <<service, cursor, labels_calls, throttle, router>>

\* GmailLabelsService.get_all_labels with an empty cache (labels.py line
\* 54): the listing request is built on the client's service object and
\* executed without an acquisition
GmailListLabels ==
    /\ WireIdle
    /\ LET w == Execute(wire, "gmail", "get_all_labels", FALSE)
       IN WithinWire(w) /\ wire' = w
    /\ UNCHANGED <<service, cursor, labels_calls, throttle, router>>

\* the OutlookClient methods a run calls
OutlookMethods ==
    {"get_folders", "create_folder", "create_message", "add_attachment",
     "import_email"}

\* OutlookClient._make_request (lines 74-254), reached from each of these
\* methods: the request is sent at once
OutlookMakeRequest ==
    /\ WireIdle
    /\ \E method \in OutlookMethods :
         LET w == Execute(wire, "outlook", method, FALSE)
         IN WithinWire(w) /\ wire' = w
    /\ UNCHANGED <<service, cursor, labels_calls, throttle, router>>

\* a second passes
WireTick ==
    /\ WireIdle
    /\ wire.now < MaxWireTime
    /\ wire' = RoundTrip(wire, 1)
    /\ UNCHANGED <<service, cursor, labels_calls, throttle, router>>

\* a caller asks the labels service for the label hierarchy
CallGetNestedLabels ==
    /\ pc = "idle"
    /\ Len(labels_calls.requests) < MaxListings
    /\ \E outcome \in ListingOutcomes :
         LET g == GetAllLabelsCall(all_labels_cache, outcome, catalog)
             n == GetNestedLabels(g.returned)
         IN /\ all_labels_cache' = g.cache
            /\ labels_calls' = [labels_calls EXCEPT
                                  !.requests = Append(@, g.request),
                                  !.nested = [called |-> TRUE,
                                              raised |-> n.raised,
                                              tree |-> n.tree]]
    /\ UNCHANGED <<catalog, nmsgs, auth_faults, dest, folder_mapping,
                   update_status_callback, pc, op, bl, ma, ia, ret, ops, recs,
                   hist, cursor, wire, throttle, router>>

Next ==
    \/ CallGetAllLabels
    \/ CallGetNestedLabels
    \/ GmailGetEmailList
    \/ GmailGetEmailContent
    \/ GmailGetAttachment
    \/ GmailListLabels
    \/ OutlookMakeRequest
    \/ WireTick
    \/ LoggedUpdate
    \/ PlainUpdate
    \/ \E ep \in Endpoints \ {"import"} : StartRun(ep)
    \/ ImportReset
    \/ ImportValidate
    \/ ServiceUpdate
    \/ ServiceEnd
    \/ StreamStep
    \/ WaitStep
    \/ Elapse
    \/ ClockSetBack
    \/ CallGetEmailBatches
    \/ CursorNext
    \/ CallMigrateLabelsToFolders
    \/ CallMigrateEmailsByLabel
    \/ CallMigrateAllEmails
    \/ CallImportAllEmails
    \/ BLResolve
    \/ BLList
    \/ BLMessage
    \/ MAStart
    \/ MALabel
    \/ MAAfter
    \/ IAStart
    \/ IALabel
    \/ IAPage
    \/ IAMessage

\* every method, every environment
Spec == Init /\ [][Next]_vars

\* environments whose providers never answer 401 (a 401 takes the same
\* paths through the code as any other failed call)
InitQuiet == Init /\ auth_faults = FALSE /\ ThrottleAtRest

\* a caller that only reconciles
InitLabels == InitQuiet /\ nmsgs = 0 /\ update_status_callback = FALSE
NextLabels == CallMigrateLabelsToFolders
SpecLabels == InitLabels /\ [][NextLabels]_vars

\* a caller that migrates one label, after reconciling or not
NextByLabel ==
    \/ CallMigrateLabelsToFolders
    \/ CallMigrateEmailsByLabel
    \/ BLResolve
    \/ BLList
    \/ BLMessage
SpecByLabel == InitQuiet /\ [][NextByLabel]_vars

\* a caller that runs migrate_all_emails on a fresh service
NextAll ==
    \/ CallMigrateAllEmails
    \/ MAStart
    \/ MALabel
    \/ MAAfter
    \/ BLResolve
    \/ BLList
    \/ BLMessage
SpecAll == InitQuiet /\ [][NextAll]_vars

\* a caller that runs import_all_emails on a fresh service
NextImport ==
    \/ CallImportAllEmails
    \/ IAStart
    \/ IALabel
    \/ IAPage
    \/ IAMessage
SpecImport == InitQuiet /\ [][NextImport]_vars

\* a caller that migrates one label or imports everything
NextTransfer ==
    \/ CallMigrateEmailsByLabel
    \/ BLResolve
    \/ BLList
    \/ BLMessage
    \/ CallImportAllEmails
    \/ IAStart
    \/ IALabel
    \/ IAPage
    \/ IAMessage
SpecTransfer == InitQuiet /\ [][NextTransfer]_vars

\* any run on a fresh service, in front of providers that may answer 401
InitAuth == Init /\ auth_faults = TRUE /\ ThrottleAtRest
NextRuns ==
    \/ CallMigrateEmailsByLabel
    \/ CallMigrateAllEmails
    \/ CallImportAllEmails
    \/ BLResolve
    \/ BLList
    \/ BLMessage
    \/ MAStart
    \/ MALabel
    \/ MAAfter
    \/ IAStart
    \/ IALabel
    \/ IAPage
    \/ IAMessage
SpecAuth == InitAuth /\ [][NextRuns]_vars

\* ------------------------------------------------------------------------
\* Properties
\* ------------------------------------------------------------------------
ByLabelReturned == pc = "done" /\ ret.op = "by_label"
AllReturned == pc = "done" /\ ret.op = "all" /\ ~ret.raised
ImportReturned == pc = "done" /\ ret.op = "import" /\ ~ret.raised

\* C1: migrate_emails_by_label on a mapped label whose listing returns N
\* messages, the content fetch of exactly one of which fails while nothing
\* else does, returns total = N, successful = N - 1, failed = 1 and
\* failed_ids = that message's id, once.
PerMessageIsolation ==
    (/\ ByLabelReturned
     /\ bl.list_calls = 1
     /\ Cardinality(bl.fetch_failed) = 1
     /\ bl.cb_throws = 0
     /\ bl.rejected = {})
    => LET k == CHOOSE j \in bl.fetch_failed : TRUE
       IN ret.value = [total |-> bl.listed, successful |-> bl.listed - 1,
                       failed |-> 1, failed_ids |-> <<MsgIds[k]>>]

\* C2: every result returned by migrate_emails_by_label and by
\* import_all_emails has total = successful + failed and failed =
\* len(failed_ids), and counts each message handed to the transfer step
\* exactly once, as successful or as failed.
ResultAccounting ==
    LET r == ret.value
        consistent == /\ r.total = r.successful + r.failed
                      /\ r.failed = Len(r.failed_ids)
    IN /\ ByLabelReturned => consistent /\ bl.handed = r.successful + r.failed
       /\ ImportReturned => consistent /\ ia.handed = r.successful + r.failed

\* C3: in migrate_emails_by_label a message counts as successful only if the
\* destination created it; a message whose destination call failed counts
\* as failed, with its id in failed_ids, and the messages after it are still
\* processed.
SuccessMeansCreated ==
    (ByLabelReturned /\ bl.cb_throws = 0 /\ bl.handed > 0)
    => /\ bl.handed = Len(bl.emails)
       /\ ret.value.successful = Cardinality(bl.created)
       /\ ret.value.failed = Cardinality(bl.rejected)
       /\ \A k \in bl.rejected :
             \E j \in 1..Len(ret.value.failed_ids) :
                ret.value.failed_ids[j] = Get(bl.emails[k], "id", None)

\* the user labels of a list of labels
UserLabels(labels) == {labels[i] : i \in {j \in 1..Len(labels) : IsUser(labels[j])}}

\* C4: two migrate_labels_to_folders runs in a row over the same labels, the
\* second seeing the first one's folder listing plus the folders the first
\* created (none of the first run's create_folder calls having failed),
\* return the same mapping, and the second calls create_folder not once.
IdempotentReconciliation ==
    (/\ Len(recs) = 2
     /\ ~recs[1].raised /\ ~recs[2].raised
     /\ recs[1].labels = recs[2].labels
     /\ recs[1].failures = 0
     /\ recs[2].seen = recs[1].dest)
    => /\ recs[2].mapping = recs[1].mapping
       /\ recs[2].created = <<>>
       /\ recs[2].failures = 0

\* C5: after migrate_labels_to_folders returns normally every user label is
\* a key of the returned mapping, or a log entry written during the call
\* says why it was skipped.
MappingComplete ==
    \A i \in 1..Len(recs) :
       ~recs[i].raised =>
          \A label \in UserLabels(recs[i].labels) :
             label.id \in DOMAIN recs[i].mapping \/ label.id \in recs[i].logged

\* the migrate_emails_by_label calls a run over these labels is to make
RECURSIVE ExpectedCalls(_, _)
ExpectedCalls(labels, max_emails) ==
    IF labels = <<>> THEN <<>>
    ELSE IF Head(labels).id = ""
    THEN ExpectedCalls(Tail(labels), max_emails)
    ELSE <<[label |-> Head(labels).id, max |-> max_emails]>>
         \o ExpectedCalls(Tail(labels), max_emails)

\* the calls the run made, without the history's note of the mapping
CallsMade ==
    [j \in 1..Len(hist.bl_calls) |->
        [label |-> hist.bl_calls[j].label, max |-> hist.bl_calls[j].max]]

\* the calls the run made for a label that had no mapping entry
UnmappedCalls == {j \in 1..Len(hist.bl_calls) : ~hist.bl_calls[j].mapped}

\* C6 (as stated): one migrate_all_emails run on a fresh service invokes
\* migrate_labels_to_folders exactly once and migrate_emails_by_label
\* exactly once per label with an id, in catalog order with the caller's
\* maximum, however many labels are still unmapped after reconciliation.
ReconcilesOnce ==
    AllReturned
    => /\ hist.rec_calls = 1
       /\ CallsMade = ExpectedCalls(ma.labels, ma.max)

\* C6 (amended): a migrate_all_emails run on a fresh service that returns
\* has invoked migrate_labels_to_folders once before the label loop and once
\* more in every migrate_emails_by_label call whose label had no mapping
\* entry, and migrate_emails_by_label exactly once per label with an id, in
\* catalog order with the caller's maximum.
ReconcilesOncePerUnmappedLabel ==
    AllReturned
    => /\ hist.rec_calls = 1 + Cardinality(UnmappedCalls)
       /\ CallsMade = ExpectedCalls(ma.labels, ma.max)

\* a returned run over three labels, two of them unmapped when their turn
\* came and one mapped, that transferred a message
ReconcilesOncePerUnmappedLabelWitness ==
    /\ AllReturned
    /\ Len(hist.bl_calls) = 3
    /\ Cardinality(UnmappedCalls) = 2
    /\ hist.rec_calls = 3
    /\ ret.value.successful > 0

\* sums and concatenation of a sequence of per-label results
RECURSIVE Reduction(_)
Reduction(rs) ==
    IF rs = <<>> THEN ZeroResult
    ELSE LET rest == Reduction(Tail(rs))
         IN [total |-> Head(rs).total + rest.total,
             successful |-> Head(rs).successful + rest.successful,
             failed |-> Head(rs).failed + rest.failed,
             failed_ids |-> Head(rs).failed_ids \o rest.failed_ids]

\* C7: the result of migrate_all_emails is the reduction of the per-label
\* results r1..rn in label order: its counts are their sums, its failed ids
\* their concatenation, and label_results has one entry per processed label,
\* that label's result.
ResultIsReduction ==
    AllReturned
    => LET r == ret.value
           red == Reduction(hist.label_res)
       IN /\ r.total = red.total
          /\ r.successful = red.successful
          /\ r.failed = red.failed
          /\ r.failed_ids = red.failed_ids
          /\ Len(hist.label_res) = Len(hist.bl_calls)
          /\ DOMAIN r.label_results =
                {hist.bl_calls[j].label : j \in 1..Len(hist.bl_calls)}
          /\ Cardinality(DOMAIN r.label_results) = Len(hist.label_res)
          /\ \A j \in 1..Len(hist.label_res) :
                r.label_results[hist.bl_calls[j].label] = hist.label_res[j]

\* a returned run over two labels, both with a failed message
ResultIsReductionWitness ==
    /\ AllReturned
    /\ Len(hist.label_res) = 2
    /\ hist.label_res[1].failed > 0
    /\ hist.label_res[2].failed > 0
    /\ ret.value.successful > 0

\* C8: migrate_emails_by_label for a label id with no entry in the cached
\* mapping invokes reconciliation exactly once; if the label is unmapped
\* still, it returns the zero result without listing or transferring a
\* message and without raising.
UnmappedLabelReconcilesOnce ==
    (ByLabelReturned /\ ~bl.mapped_at_entry)
    => /\ bl.reconciled = 1
       /\ hist.rec_calls = 1
       /\ ~ret.raised
       /\ bl.label \notin DOMAIN folder_mapping
          => /\ ret.value = ZeroResult
             /\ bl.list_calls = 0
             /\ bl.handed = 0
             /\ bl.emails = <<>>

\* a call for an unmapped label that reconciliation left unmapped, on a
\* service that had a mapping for other labels
UnmappedLabelReconcilesOnceWitness ==
    /\ ByLabelReturned
    /\ ~bl.mapped_at_entry
    /\ bl.reconciled = 1
    /\ folder_mapping # EmptyDict
    /\ bl.label \notin DOMAIN folder_mapping
    /\ nmsgs > 0

\* C9: when a provider call of a run fails with 401 the run stops there: the
\* error reaches the run's caller and no message is fetched or submitted
\* after it.
AuthErrorStopsRun ==
    hist.auth_seen
    => /\ hist.after_auth = 0
       /\ pc = "done" => ret.raised

\* C10: migrate_emails_by_label calls the source's get_attachment once per
\* attachment reference of the messages it transfers, and the destination's
\* add_attachment as often, against the id of the created message.
AttachmentsTransferred ==
    (ByLabelReturned /\ bl.cb_throws = 0 /\ bl.rejected = {})
    => /\ bl.get_attachment_calls = bl.attachment_refs
       /\ bl.add_attachment_calls = bl.attachment_refs

\* the display name of the folder with this id
FolderName(folders, fid) ==
    LET hits == {i \in 1..Len(folders) : folders[i].id = fid}
    IN IF hits = {} THEN None ELSE folders[Min(hits)].displayName

\* the display names of a folder listing
FolderNames(folders) == {folders[i].displayName : i \in 1..Len(folders)}

\* the reconciliations recorded that returned
ReturnedRecs == {i \in 1..Len(recs) : ~recs[i].raised}

\* the same reconciliation with every create_folder call succeeding
WithoutFailure(rec) ==
    MigrateLabelsToFolders(rec.labels, rec.seen, "ok",
                           [k \in 1..UserCount(rec.labels) |-> "ok"])

\* C11: when create_folder throws for one user label of a
\* migrate_labels_to_folders call, the call returns, that label is not in the
\* mapping and its failure is logged, and every other label is mapped as it
\* would have been without the failure (or, like then, not at all).
CreateFailureIsolated ==
    \A i \in ReturnedRecs :
       recs[i].failures = 1 =>
          LET rec == recs[i]
              ideal == WithoutFailure(rec)
              failed == {l \in UserLabels(rec.labels) : l.id \in rec.logged}
              others == {rec.labels[j] : j \in 1..Len(rec.labels)} \ failed
          IN /\ Cardinality(failed) = 1
             /\ \A l \in failed : l.id \notin DOMAIN rec.mapping
             /\ \A l \in others :
                   /\ l.id \in DOMAIN rec.mapping <=> l.id \in DOMAIN ideal.mapping
                   /\ l.id \in DOMAIN rec.mapping
                      => FolderName(rec.dest, rec.mapping[l.id])
                         = FolderName(ideal.dest, ideal.mapping[l.id])

\* C12: migrate_labels_to_folders creates a folder for a user label only if
\* no folder of that name is in the listing and none was created earlier in
\* the call, and otherwise maps the label to the first folder of that name;
\* at most one folder is created per user-label name.
UserLabelFirstMatch ==
    \A i \in ReturnedRecs :
       LET rec == recs[i]
       IN /\ \A k \in 1..Len(rec.created) :
                /\ rec.created[k] \notin FolderNames(rec.seen)
                /\ \A j \in 1..Len(rec.created) :
                      rec.created[j] = rec.created[k] => j = k
          /\ \A l \in UserLabels(rec.labels) :
                (l.id \notin rec.logged /\ l.name \in FolderNames(rec.dest))
                => /\ l.id \in DOMAIN rec.mapping
                   /\ rec.mapping[l.id] = FirstFolderNamed(rec.dest, l.name)

\* the names of the fixed table of system labels (lines 153-161)
SystemLabelNames ==
    {"INBOX", "SENT", "DRAFT", "TRASH", "SPAM", "IMPORTANT", "STARRED"}

\* the system labels of a list of labels
SystemLabels(labels) ==
    {labels[i] : i \in {j \in 1..Len(labels) : IsSystem(labels[j])}}

\* C13: migrate_labels_to_folders maps a system label iff its name is in the
\* fixed table and the listing has a folder named exactly as the table says,
\* to the id of the first such folder; an unmatched system label is left
\* unmapped without error and no folder is created for a system label.
SystemLabelsByTable ==
    \A i \in ReturnedRecs :
       LET rec == recs[i]
           matches(l) ==
              IF l.name \in SystemLabelNames
              THEN {j \in 1..Len(rec.seen) :
                      rec.seen[j].displayName = SystemMapping[l.name]}
              ELSE {}
       IN /\ \A l \in SystemLabels(rec.labels) :
                /\ l.id \in DOMAIN rec.mapping <=> matches(l) # {}
                /\ matches(l) # {}
                   => \E j \in matches(l) :
                         /\ rec.mapping[l.id] = rec.seen[j].id
                         /\ \A h \in matches(l) : j <= h
          /\ Len(rec.created) + rec.failures <= Cardinality(UserLabels(rec.labels))
          /\ \A k \in 1..Len(rec.created) :
                \E l \in UserLabels(rec.labels) : l.name = rec.created[k]

\* a reconciliation that created a folder for a user label and mapped no
\* system label, followed by one that mapped a system label to that folder
\* and left another system label unmapped
SystemLabelsByTableWitness ==
    /\ Len(recs) = 2
    /\ ReturnedRecs = {1, 2}
    /\ recs[1].created # <<>>
    /\ \A l \in SystemLabels(recs[1].labels) : l.id \notin DOMAIN recs[1].mapping
    /\ \E l \in SystemLabels(recs[2].labels) : l.id \in DOMAIN recs[2].mapping
    /\ \E l \in SystemLabels(recs[2].labels) : l.id \notin DOMAIN recs[2].mapping

\* C14: migrate_emails_by_label on a mapped label whose listing returns no
\* messages returns the zero result and calls the destination not once: no
\* reconciliation (folder listing, folder creation), no message handed to
\* migrate_email, no attachment call.
EmptyLabelSparesDestination ==
    (/\ ByLabelReturned
     /\ bl.mapped_at_entry
     /\ nmsgs = 0 \/ (bl.list_calls = 1 /\ bl.listed = 0))
    => /\ ret.value = ZeroResult
       /\ ~ret.raised
       /\ bl.reconciled = 0
       /\ hist.rec_calls = 0
       /\ bl.handed = 0
       /\ bl.created = {}
       /\ bl.add_attachment_calls = 0

\* a call for a label mapped by an earlier reconciliation, whose listing was
\* made and returned nothing
EmptyLabelSparesDestinationWitness ==
    /\ ByLabelReturned
    /\ bl.mapped_at_entry
    /\ nmsgs = 0
    /\ bl.list_calls = 1
    /\ bl.listed = 0
    /\ dest # <<>>

\* a caller that runs migrate_all_emails or import_all_emails on a fresh
\* service
NextFullRuns ==
    \/ CallMigrateAllEmails
    \/ CallImportAllEmails
    \/ MAStart
    \/ MALabel
    \/ MAAfter
    \/ BLResolve
    \/ BLList
    \/ BLMessage
    \/ IAStart
    \/ IALabel
    \/ IAPage
    \/ IAMessage
SpecFullRuns == InitQuiet /\ [][NextFullRuns]_vars

\* C15: in migrate_all_emails and import_all_emails an error raised while
\* listing or paging a label's messages stays at that label: once the label
\* loop has started the run raises only when a status callback of the run
\* itself throws, and a run that returns has gone through every label in
\* order.
ListingErrorContained ==
    /\ (pc = "done" /\ op.name = "all" /\ ma.i >= 1)
       => /\ ret.raised => ma.cb_throws > 0
          /\ ~ret.raised
             => /\ ma.i = Len(ma.labels) + 1
                /\ CallsMade = ExpectedCalls(ma.labels, ma.max)
                /\ Len(hist.label_res) = Len(hist.bl_calls)
    /\ (pc = "done" /\ op.name = "import" /\ ia.i >= 1)
       => /\ ret.raised => ia.cb_throws > 0
          /\ ~ret.raised => ia.i = Len(ia.labels) + 1
    /\ (pc = "ma_after" /\ bl.list_calls = 1 /\ bl.emails = <<>>)
       => bl.result = ZeroResult

\* an import_all_emails run without a status callback that returned after
\* both labels were mapped and the mailbox held a message: the paging of one
\* label failed, so nothing was taken from it, while the other label's
\* message was imported
ListingErrorContainedWitness ==
    /\ ImportReturned
    /\ ~update_status_callback
    /\ nmsgs = 1
    /\ Len(ia.labels) = 2
    /\ \A j \in 1..2 : ia.labels[j].id \in DOMAIN folder_mapping
    /\ ia.handed = 1
    /\ ia.imported = 1

\* the service left alone while a utility is exercised
ServiceAtRest ==
    /\ catalog = <<>>
    /\ nmsgs = 0
    /\ auth_faults = FALSE
    /\ dest = <<>>
    /\ all_labels_cache = <<>>
    /\ folder_mapping = EmptyDict
    /\ update_status_callback = FALSE
    /\ pc = "idle"
    /\ op = NoOp
    /\ bl = NoBL
    /\ ma = NoMA
    /\ ia = NoIA
    /\ ret = NoRet
    /\ ops = 0
    /\ recs = <<>>
    /\ hist = NoHist

\* a consumer of get_email_batches
InitBatches ==
    /\ ServiceAtRest /\ ThrottleAtRest /\ RouterAtRest
    /\ cursor = NoCursor /\ labels_calls = NoListing /\ wire = NoWire
NextBatches ==
    \/ CallGetEmailBatches
    \/ CursorNext
SpecBatches == InitBatches /\ [][NextBatches]_vars

\* the page is the last the generator may ask for
LastPage(page) == page.messages = <<>> \/ page.next_page_token = None

\* C16: get_email_batches yields the listing's non-empty pages in order and
\* never an empty batch, asks for each page with the token the page before
\* returned (none for the first), and stops after the first page that is
\* empty or carries no token; so maxPages pages with tokens and an empty one
\* give exactly maxPages batches.
PaginationTerminates ==
    LET n == Len(cursor.pages)
        full == {k \in 1..n : cursor.pages[k].messages # <<>>}
    IN /\ \A k \in 1..Len(cursor.batches) : cursor.batches[k] # <<>>
       /\ Len(cursor.batches) = Cardinality(full)
       /\ \A k \in full : k <= Len(cursor.batches)
                          /\ cursor.batches[k] = cursor.pages[k].messages
       /\ \A k \in 1..Len(cursor.requests) :
             cursor.requests[k].page_token =
                IF k = 1 THEN None ELSE cursor.pages[k - 1].next_page_token
       /\ \A k \in 1..n : LastPage(cursor.pages[k]) => k = n
       /\ n <= Len(cursor.requests)
       /\ Len(cursor.requests) <= n + 1
       /\ (n > 0 /\ cursor.pages[n].messages = <<>>)
          => /\ cursor.state = "ended"
             /\ Len(cursor.batches) = n - 1
             /\ Len(cursor.requests) = n
       /\ cursor.state = "ended" => n > 0 /\ LastPage(cursor.pages[n])

\* MaxPages pages with a token each, then an empty page: the generator has
\* ended after MaxPages batches
PaginationTerminatesWitness ==
    /\ cursor.state = "ended"
    /\ Len(cursor.pages) = MaxPages + 1
    /\ Len(cursor.batches) = MaxPages
    /\ cursor.pages[MaxPages + 1].messages = <<>>
    /\ cursor.requests[MaxPages + 1].page_token # cursor.requests[MaxPages].page_token

\* one caller of a fresh RateLimiter, and a clock that only moves forward
InitWait ==
    /\ ServiceAtRest
    /\ cursor = NoCursor /\ labels_calls = NoListing /\ wire = NoWire
    /\ limiter \in {RateLimiter(max_calls, period) :
                       max_calls \in 0..MaxCalls, period \in Periods}
    /\ clock = 0
    /\ callers = [t \in {1} |-> IdleCaller]
    /\ meter = NoMeter
    /\ RouterAtRest
NextWait ==
    \/ WaitStep
    \/ Elapse
SpecWait == InitWait /\ [][NextWait]_vars

\* one caller, and a clock that may be set back
NextClock ==
    \/ WaitStep
    \/ Elapse
    \/ ClockSetBack
SpecClock == InitWait /\ [][NextClock]_vars

\* the threads of an application calling one decorated function (lines
\* 81-104: one RateLimiter for all calls of the function)
InitThreads ==
    /\ ServiceAtRest
    /\ cursor = NoCursor /\ labels_calls = NoListing /\ wire = NoWire
    /\ limiter \in {RateLimiter(max_calls, period) :
                       max_calls \in 1..MaxCalls, period \in Periods}
    /\ clock = 0
    /\ callers = [t \in 1..2 |-> IdleCaller]
    /\ meter = NoMeter
    /\ RouterAtRest
SpecThreads == InitThreads /\ [][NextWait]_vars

\* timestamps held that are younger than the period
InWindow == {i \in 1..Len(limiter.calls) :
                limiter.calls[i] > clock - limiter.period}

\* C17: a single caller's max_calls + k consecutive wait() calls on a fresh
\* RateLimiter(max_calls, period) take at least k * period / max_calls
\* seconds, whatever the period.
SustainedRate ==
    (/\ limiter.max_calls >= 1
     /\ meter.raised = 0
     /\ meter.returned > limiter.max_calls)
    => (meter.ended - meter.began) * limiter.max_calls
          >= (meter.returned - limiter.max_calls) * limiter.period

\* C18: at every moment at most max_calls of the timestamps held lie within
\* the last period seconds.
WindowBound == Cardinality(InWindow) <= limiter.max_calls

\* C19: with several threads calling wait() on one RateLimiter no call
\* raises, no timestamp is lost, and at most max_calls calls are admitted
\* in any window.
ThreadSafeWait ==
    /\ meter.raised = 0
    /\ meter.lost = 0
    /\ Cardinality(InWindow) <= limiter.max_calls

\* C20: wait() never raises, whatever max_calls >= 0, the period and the
\* clock readings are, and every call returns having recorded the call.
WaitNeverRaises ==
    /\ meter.raised = 0
    /\ meter.returned + meter.raised
          + Cardinality({t \in DOMAIN callers : callers[t].pc # "idle"})
          = meter.started
    /\ \A t \in DOMAIN callers :
          (callers[t].pc = "idle" /\ meter.returned > 0)
          => limiter.calls # <<>>

\* the router on its own
InitRouter ==
    /\ ServiceAtRest /\ ThrottleAtRest /\ RouterAtRest
    /\ cursor = NoCursor /\ labels_calls = NoListing /\ wire = NoWire

\* callers of update_migration_state, one call after the other
NextLog ==
    \/ LoggedUpdate
    \/ PlainUpdate
SpecLog == InitRouter /\ [][NextLog]_vars

\* requests to the four entry points
NextEntryPoints ==
    \/ \E ep \in Endpoints \ {"import"} : StartRun(ep)
    \/ ImportReset
    \/ ImportValidate
    \/ ServiceUpdate
    \/ ServiceEnd
SpecEntryPoints == InitRouter /\ [][NextEntryPoints]_vars

\* connections to the status stream while full migrations and imports are
\* requested
NextStatus ==
    \/ StartRun("all")
    \/ ImportReset
    \/ ImportValidate
    \/ ServiceUpdate
    \/ ServiceEnd
    \/ StreamStep
SpecStatus == InitRouter /\ [][NextStatus]_vars

\* a caller that only asks for the labels, of a mailbox with labels or
\* without
InitListing ==
    /\ catalog \in Catalogs \cup {<<>>}
    /\ nmsgs = 0
    /\ auth_faults \in BOOLEAN
    /\ dest = <<>>
    /\ all_labels_cache = <<>>
    /\ folder_mapping = EmptyDict
    /\ update_status_callback = FALSE
    /\ pc = "idle"
    /\ op = NoOp
    /\ bl = NoBL
    /\ ma = NoMA
    /\ ia = NoIA
    /\ ret = NoRet
    /\ ops = 0
    /\ recs = <<>>
    /\ hist = NoHist
    /\ cursor = NoCursor /\ labels_calls = NoListing /\ wire = NoWire
    /\ ThrottleAtRest
    /\ RouterAtRest
NextListing == CallGetAllLabels
SpecListing == InitListing /\ [][NextListing]_vars

\* a caller that asks for the labels or for their hierarchy, of mailboxes
\* with nested label names
InitNested ==
    /\ catalog \in NestedCatalogs
    /\ nmsgs = 0
    /\ auth_faults \in BOOLEAN
    /\ dest = <<>>
    /\ all_labels_cache = <<>>
    /\ folder_mapping = EmptyDict
    /\ update_status_callback = FALSE
    /\ pc = "idle"
    /\ op = NoOp
    /\ bl = NoBL
    /\ ma = NoMA
    /\ ia = NoIA
    /\ ret = NoRet
    /\ ops = 0
    /\ recs = <<>>
    /\ hist = NoHist
    /\ cursor = NoCursor /\ labels_calls = NoListing /\ wire = NoWire
    /\ ThrottleAtRest
    /\ RouterAtRest
NextNested ==
    \/ CallGetAllLabels
    \/ CallGetNestedLabels
SpecNested == InitNested /\ [][NextNested]_vars

GetMigrationStatus == migration_state

RunOver == run.pc = "idle" /\ run.outcome \in {"returned", "raised"}

\* C23: a run sets the status to running when it starts; when it is over the
\* status is completed if it returned and failed, with the error message as
\* the newest log entry, if an error unwound it; never running.
RunLifecycle ==
    /\ run.pc = "service" => migration_state.status = "running"
    /\ (RunOver /\ run.outcome = "returned")
       => migration_state.status = "completed"
    /\ (RunOver /\ run.outcome = "raised")
       => /\ migration_state.status = "failed"
          /\ migration_state.logs # <<>>
          /\ migration_state.logs[Len(migration_state.logs)].text
                = [run |-> run.id, msg |-> "failed"]
    /\ RunOver => migration_state.status # "running"

\* C24: right after the start of a run every counter is zero, the current
\* label is empty and the log tail has no entry of an earlier run.
RunResetsState ==
    (run.pc = "service" /\ run.updates = 0)
    => /\ migration_state.total_emails = 0
       /\ migration_state.processed_emails = 0
       /\ migration_state.successful_emails = 0
       /\ migration_state.failed_emails = 0
       /\ migration_state.total_labels = 0
       /\ migration_state.processed_labels = 0
       /\ migration_state.current_label = ""
       /\ \A i \in 1..Len(migration_state.logs) :
             migration_state.logs[i].text.run = run.id

\* C25: update_migration_state(partial) overwrites the scalar fields the
\* partial names and no other; without a log line the log tail stays as it
\* is, with one exactly one entry is appended.
MergeFrame ==
    tape.n > 0
    => LET prev == tape.prev
           update == tape.update
           now == migration_state
       IN /\ now = tape.merged
          /\ DOMAIN now = DOMAIN prev
          /\ \A k \in DOMAIN now \ {"logs"} :
                now[k] = IF k \in DOMAIN update THEN update[k] ELSE prev[k]
          /\ "logs" \notin DOMAIN update => now.logs = prev.logs
          /\ "logs" \in DOMAIN update
             => LET kept == IF Len(prev.logs) < LogTailLimit THEN prev.logs
                            ELSE Tail(prev.logs)
                IN /\ Len(now.logs) = Len(kept) + 1
                   /\ SubSeq(now.logs, 1, Len(kept)) = kept
                   /\ now.logs[Len(now.logs)].text = update.logs.text

\* a partial with a log line and one scalar was merged into a state whose
\* tail was full and whose current label was set
MergeFrameWitness ==
    /\ tape.n > 0
    /\ DOMAIN tape.update = {"logs", "processed_emails"}
    /\ Len(tape.prev.logs) = LogTailLimit
    /\ tape.prev.current_label = "Work"
    /\ tape.prev.status = "running"

\* the queues in the listener list
Connected == {connected_clients[i] : i \in 1..Len(connected_clients)}

\* the snapshots a listener was given: those its stream sent after the first
\* event and those still in its queue
Events(q) ==
    (IF subs[q].received = <<>> THEN <<>> ELSE Tail(subs[q].received))
       \o queues[q].items

\* C26: every update_migration_state call enqueues one snapshot of the merged
\* state to each listener subscribed at that moment, and a listener gets the
\* snapshots in the order of the updates.
BroadcastInOrder ==
    \A q \in DOMAIN queues :
       LET last == IF q \in Connected THEN tape.n ELSE subs[q].left
           got == Events(q)
       IN /\ Len(got) = last - subs[q].since
          /\ \A i \in 1..Len(got) : got[i].n = subs[q].since + i
          /\ (got # <<>> /\ got[Len(got)].n = tape.n)
             => got[Len(got)].json = tape.merged

\* two listeners have been given the snapshots of the same three updates or
\* more, one has read some of them, the other none
BroadcastInOrderWitness ==
    \E q \in DOMAIN queues, r \in DOMAIN queues :
       /\ q # r
       /\ {q, r} \subseteq Connected
       /\ Len(subs[q].received) >= 3
       /\ subs[r].received = <<>>
       /\ Len(queues[r].items) >= 3
       /\ tape.n > subs[r].since + 2

\* C27: a stream sends the current state as its first event, whether an
\* update follows or not, and misses no update applied after it subscribed.
BaselineFirst ==
    /\ Schedulable => migration_state = tape.merged
    /\ \A q \in DOMAIN queues :
          /\ subs[q].pc \in {"baseline", "waiting", "yielded"}
             => /\ subs[q].received # <<>>
                /\ subs[q].received[1].n >= subs[q].since
                /\ subs[q].received[1].n = tape.n
                   => subs[q].received[1].json = tape.merged
          /\ q \in Connected
             => \A n \in (subs[q].since + 1)..tape.n :
                   \E i \in 1..Len(Events(q)) : Events(q)[i].n = n

\* one stream has sent its first event though no update was ever made, and
\* another, begun after an update, has sent the update that followed
BaselineFirstWitness ==
    \E q \in DOMAIN queues, r \in DOMAIN queues :
       /\ subs[q].received # <<>>
       /\ subs[q].received[1].n = 0
       /\ subs[q].received[1].json = InitialMigrationState
       /\ subs[r].since > 0
       /\ Len(subs[r].received) >= 2
       /\ subs[r].received[2].n = subs[r].since + 1

\* C28: when a connection ends, at any point after it subscribed, its queue
\* is taken out of the listener list and gets no later update; no removal
\* raises.
PrunedOnDisconnect ==
    \A q \in DOMAIN queues :
       /\ subs[q].pc # "raised"
       /\ subs[q].pc = "gone"
          => /\ q \notin Connected
             /\ \A i \in 1..Len(queues[q].items) :
                   queues[q].items[i].n <= subs[q].left

\* C29: a listener that does not read, or is gone and was not pruned, never
\* blocks an update_migration_state call.
BroadcasterNeverBlocked == run.pc # "blocked"

\* a run has returned though a listener that is gone and one that never
\* began to read each hold three unread snapshots or more
BroadcasterNeverBlockedWitness ==
    /\ RunOver
    /\ run.outcome = "returned"
    /\ \E q \in Connected, r \in Connected :
          /\ subs[q].pc = "gone"
          /\ subs[r].pc = "registered"
          /\ Len(queues[q].items) >= 3
          /\ Len(queues[r].items) >= 3

\* how the last get_all_labels call went
LastRequest == labels_calls.requests[Len(labels_calls.requests)]

\* C30: a get_all_labels call whose listing fails, for want of a service or
\* of authentication, hands the error to its caller, as one kind or the
\* other, and not an empty list.
ListingFailureSurfaces ==
    (labels_calls.requests # <<>> /\ LastRequest \in {"unavailable", "auth"})
    => labels_calls.raised = LastRequest

\* the get_all_labels calls so far whose listing request was answered
Answered == {i \in 1..Len(labels_calls.requests) :
                labels_calls.requests[i] = "ok"}

\* C31: however often the labels are asked for, one GmailLabelsService has
\* the source list them at most once and every call returns the same list,
\* whatever the list, the empty one included.
ListedAtMostOnce ==
    /\ Cardinality(Answered) <= 1
    /\ (labels_calls.requests # <<>> /\ Answered # {} /\ LastRequest # "ok")
       => LastRequest = "cached" /\ labels_calls.returned = catalog

\* the user labels of the list the last call worked on
NestedInput ==
    {catalog[k] : k \in {k \in 1..Len(catalog) : catalog[k].type = "user"}}

\* C32: get_nested_labels completes for every list of labels and puts each
\* user label named s1/.../sk at the path s1, ..., sk below the root: the
\* prefixes are folder nodes, the last segment a label node with the
\* label's id.
NestedPlacement ==
    (labels_calls.nested.called /\ LastRequest \in {"ok", "cached"})
    => /\ ~labels_calls.nested.raised
       /\ \A label \in NestedInput :
             LET path == Split(label.name)
                 tree == labels_calls.nested.tree
             IN /\ path \in DOMAIN tree
                /\ tree[path].type = "label"
                /\ \E other \in NestedInput :
                      other.name = label.name /\ tree[path].id = other.id
                /\ \A k \in 0..(Len(path) - 1) :
                      /\ SubSeq(path, 1, k) \in DOMAIN tree
                      /\ tree[SubSeq(path, 1, k)].type \in {"folder", "label"}

\* the timestamps held are no older than the period before now
Purged(now) ==
    \A i \in 1..Len(limiter.calls) :
       limiter.calls[i] >= WindowStart(now, limiter.period)

\* one step of the single caller's wait() as the claim describes it
WaitAsDescribed ==
    LET c == callers[1]
        d == callers'[1]
    IN \/ d = c
       \/ /\ c.pc = "check"
             => /\ Purged(c.current_time)
                /\ Len(limiter.calls) < limiter.max_calls => d.pc = "append"
          /\ c.pc = "oldest"
             => /\ limiter.calls # <<>>
                /\ LET wait == limiter.calls[1] + limiter.period
                                  - c.current_time
                        capped == IF wait < 60 THEN wait ELSE 60
                   IN IF wait > 0
                      THEN d.pc = "sleep" /\ d.wake = clock + capped
                      ELSE d.pc = "append"
          /\ c.pc = "sleep"
             => /\ d.pc = "cleanup_test" /\ d.after = "append"
                /\ d.current_time = clock'
                /\ clock' >= c.wake
          /\ (c.pc = "append" /\ c.after = "append") => Purged(c.current_time)
          /\ (c.pc # "idle" /\ d.pc = "idle")
             => /\ c.pc = "append"
                /\ limiter'.calls = Append(limiter.calls, c.current_time)
          /\ c.pc # "append" => Len(limiter'.calls) <= Len(limiter.calls)

\* C33: wait() purges the timestamps older than now - period; with fewer
\* than max_calls left it does not sleep, else it sleeps once, for
\* min(oldest + period - now, 60) seconds when that is positive, and purges
\* again; in every case it appends exactly one timestamp, read after any
\* sleep.
WaitPurgesSleepsAppends == [][WaitAsDescribed]_vars

\* C34: every import_email call of import_all_emails names the folder
\* mapped to the label whose listing gave the message, and a label without
\* a mapping gets no message listing and no destination call.
ImportTargetsMappedFolder ==
    pc \in {"ia_label", "ia_page", "ia_msg", "done"}
    => /\ \A t \in ia.targets :
             /\ ia.labels[t[1]].id \in DOMAIN folder_mapping
             /\ t[2] = folder_mapping[ia.labels[t[1]].id]
       /\ \A i \in 1..Len(ia.labels) :
             Get(folder_mapping, ia.labels[i].id, NoFolder) = NoFolder
             => /\ i \notin ia.listed
                /\ \A t \in ia.targets : t[1] # i

\* a run has passed a label without a mapping and imported a message of a
\* label with one
ImportTargetsMappedFolderWitness ==
    /\ pc \in {"ia_label", "ia_page", "ia_msg", "done"}
    /\ ia.targets # {}
    /\ \E i \in 1..Len(ia.labels) :
          /\ i < ia.i
          /\ Get(folder_mapping, ia.labels[i].id, NoFolder) = NoFolder

\* ------------------------------------------------------------------------
\* Calls of the provider clients and their rate-limit acquisitions

\* the two clients, called in any order
InitWire == InitQuiet /\ nmsgs = 0 /\ update_status_callback = FALSE
NextWire ==
    \/ GmailGetEmailList
    \/ GmailGetEmailContent
    \/ GmailGetAttachment
    \/ GmailListLabels
    \/ OutlookMakeRequest
    \/ WireTick
SpecWire == InitWire /\ [][NextWire]_vars

\* C36: every outbound call to either provider is preceded by its own
\* rate-limit acquisition, so that no two calls to the same provider are
\* issued closer together than the configured limit allows.
OutboundCallsAcquire ==
    /\ \A i \in 1..Len(wire.sent) : wire.sent[i].acquired
    /\ \A i \in 1..Len(wire.sent), j \in 1..Len(wire.sent) :
          (i < j /\ wire.sent[i].provider = wire.sent[j].provider)
          => wire.sent[j].at - wire.sent[i].at
                >= MinInterval(RATE_LIMIT_REQUESTS)

\* ------------------------------------------------------------------------
\* Progress updates of the label and full runs

\* a caller that migrates one label or all of them, with a status callback
InitProgress == InitQuiet /\ update_status_callback = TRUE
NextProgress ==
    \/ CallMigrateEmailsByLabel
    \/ CallMigrateAllEmails
    \/ BLResolve
    \/ BLList
    \/ BLMessage
    \/ MAStart
    \/ MALabel
    \/ MAAfter
SpecProgress == InitProgress /\ [][NextProgress]_vars

\* the processed_emails values of the updates, in the order sent
RECURSIVE ProcessedValues(_)
ProcessedValues(updates) ==
    IF updates = <<>> THEN <<>>
    ELSE (IF "processed_emails" \in DOMAIN Head(updates)
          THEN <<Head(updates).processed_emails>> ELSE <<>>)
         \o ProcessedValues(Tail(updates))

NonDecreasing(seq) == \A i \in 1..(Len(seq) - 1) : seq[i] <= seq[i + 1]

\* the loop of lines 253-311 has run to its end
LoopCompleted == bl.done /\ bl.emails # <<>> /\ bl.i > Len(bl.emails)

\* the updates the activation sends up to the end of its loop: the label
\* announcement, two per message, a third for a message counted as failed
LoopUpdates == 1 + 2 * (bl.i - 1) + bl.failed

\* message bl.i - 1 has been processed, and the last update sent says so
ReportedBeforeNext ==
    (bl.i >= 2 /\ (pc = "bl_msg" \/ LoopCompleted))
    => /\ bl.emitted # <<>>
       /\ "processed_emails" \in DOMAIN bl.emitted[Len(bl.emitted)]
       /\ bl.emitted[Len(bl.emitted)].processed_emails = bl.i - 1

\* C35 as stated: within migrate_emails_by_label with a status callback,
\* after message i an update with processed_emails = i is sent before
\* message i+1 is started, the processed_emails values sent never
\* decrease, and a further update is sent when the label completes.
LabelProgressReported ==
    update_status_callback
    => /\ ReportedBeforeNext
       /\ NonDecreasing(ProcessedValues(bl.emitted))
       /\ LoopCompleted => Len(bl.emitted) > LoopUpdates

\* C35: within migrate_emails_by_label with a status callback, after
\* message i an update with processed_emails = i is sent before message
\* i+1 is started and the processed_emails values sent never decrease;
\* the method sends nothing after the update of its last message, and the
\* update that follows a completed label is the one migrate_all_emails
\* sends once the call has returned, with the totals of the run so far.
LabelProgressPerMessage ==
    update_status_callback
    => /\ ReportedBeforeNext
       /\ NonDecreasing(ProcessedValues(bl.emitted))
       /\ LoopCompleted => Len(bl.emitted) = LoopUpdates
       /\ (op.name = "all" /\ pc = "ma_label" /\ bl.done)
          => /\ hist.live.processed_labels >= 1
             /\ hist.live.total_emails = ma.results.total
             /\ hist.live.successful_emails = ma.results.successful
             /\ hist.live.failed_emails = ma.results.failed

\* a full run is back in its loop after a label of two messages or more
\* went through
LabelProgressPerMessageWitness ==
    /\ update_status_callback
    /\ op.name = "all"
    /\ pc = "ma_label"
    /\ LoopCompleted
    /\ Len(bl.emails) >= 2

\* ------------------------------------------------------------------------
\* The cached mapping and the reconciliation that built it

LabelIdsOf(labels) == {labels[i].id : i \in 1..Len(labels)}
FolderIdsOf(folders) == {folders[i].id : i \in 1..Len(folders)}

\* the folders a reconciliation created: those the destination holds
\* beyond the listing it was given
CreatedDuring(r) == {r.dest[i].id : i \in (Len(r.seen) + 1)..Len(r.dest)}

\* the reconciliations on record that returned
Returning == SelectSeq(recs, LAMBDA r : ~r.raised)

\* C37: after any sequence of reconciliations the cached mapping is the one
\* the last returning reconciliation built: every key is the id of a label
\* of the catalog snapshot it read, every value the id of a folder its
\* folder listing returned or it created; a reconciliation that raises
\* leaves the cached mapping as it was.
MappingWithinSnapshot ==
    /\ (recs # <<>> /\ Returning = <<>> /\ Len(recs) = ops)
       => folder_mapping = EmptyDict
    /\ Returning # <<>>
       => LET r == Returning[Len(Returning)]
          IN /\ folder_mapping = r.mapping
             /\ DOMAIN folder_mapping \subseteq LabelIdsOf(r.labels)
             /\ \A k \in DOMAIN folder_mapping :
                   folder_mapping[k]
                      \in FolderIdsOf(r.seen) \cup CreatedDuring(r)

\* the second of two reconciliations mapped one label to a folder its
\* listing returned and another to a folder it created
MappingWithinSnapshotWitness ==
    /\ Len(recs) = 2
    /\ ~recs[2].raised
    /\ \E k \in DOMAIN folder_mapping :
          folder_mapping[k] \in FolderIdsOf(recs[2].seen)
    /\ \E k \in DOMAIN folder_mapping :
          folder_mapping[k] \in CreatedDuring(recs[2])

\* ------------------------------------------------------------------------
\* The counters of the live MigrationState during a full run

\* no status callback of the run has thrown (update_migration_state, the
\* callback the router sets, does not)
NoCallbackThrew == ma.cb_throws = 0 /\ ia.cb_throws = 0 /\ ~hist.bl_throws

\* C38: at every point of a migrate_all_emails or import_all_emails run the
\* live MigrationState has successful_emails + failed_emails <=
\* processed_emails <= total_emails and processed_labels <= total_labels.
LiveCountersOrdered ==
    (op.name \in {"all", "import"} /\ NoCallbackThrew)
    => /\ hist.live.successful_emails + hist.live.failed_emails
             <= hist.live.processed_emails
       /\ hist.live.processed_emails <= hist.live.total_emails
       /\ hist.live.processed_labels <= hist.live.total_labels

\* ------------------------------------------------------------------------
\* The order of the events one stream delivers

\* C39: the events a subscriber receives are in state order, also when it
\* subscribes while updates are being applied: no event delivered later
\* reflects an older state than one delivered earlier, and no state is
\* delivered twice.
EventsInStateOrder ==
    \A q \in DOMAIN queues :
       \A i \in 1..Len(subs[q].received), j \in 1..Len(subs[q].received) :
          i < j => subs[q].received[i].n < subs[q].received[j].n

====
